---- MODULE Spec2Model ----
(***************************************************************************)
(* BIP-352 silent payments (BlueWallet/SilentPayments): the sender side    *)
(* (createTransaction), the outpoint canonicalizer (_outpointsHash), the   *)
(* receiver side (computeTweakForTx, detectOurUtxos) and the scalar/point  *)
(* engine (noble_ecc.ts) they rest on.                                     *)
(*                                                                         *)
(* Abstraction of the curve: secp256k1 is a cyclic group of prime order,   *)
(* so a point is modelled by its discrete logarithm to the base G (a       *)
(* number in 1..N-1, N the group order) and the point at infinity by 0.    *)
(* P and -P share their x coordinate and differ in the parity of y.        *)
(* Byte strings are sequences of numbers: a 32-byte scalar or x coordinate *)
(* is one element, a compressed point is <<prefix, x>> with prefix 2 or 3, *)
(* an uncompressed point is <<4, x, yparity>>.  SHA-256 is modelled by a   *)
(* deterministic fold over the bytes it is given.                          *)
(***************************************************************************)
EXTENDS Integers, Sequences, FiniteSets, TLC

\* ---------------------------------------------------------------- bounds
\* Index into the list of group orders below.
CurveIx == 0
\* Longest target list and longest UTXO list that are enumerated.
MaxTargets == 3
MaxUtxos == 2

\* The order n of the group (necc.CURVE.n): a prime.
N == <<11, 13, 17, 19>>[CurveIx + 1]

\* A failed engine call: throwToNull's null.
NULL == <<-1>>

\* new Uint8Array(x as Uint8Array): null becomes the empty array.
NewUint8Array(x) == IF x = NULL THEN <<>> ELSE x

RECURSIVE Reverse(_)
Reverse(s) == IF s = <<>> THEN <<>> ELSE Append(Reverse(Tail(s)), Head(s))

RECURSIVE concatUint8Arrays(_)
concatUint8Arrays(arrays) ==
  IF arrays = <<>> THEN <<>> ELSE Head(arrays) \o concatUint8Arrays(Tail(arrays))

Min(a, b) == IF a <= b THEN a ELSE b

\* array.slice(from, to): the elements from index from (zero-based) up to but
\* not including index to, as far as the array has them.  A key of 33 bytes is
\* two elements here, so data.slice(0, 33) is Slice(data, 0, 2).
Slice(array, from, to) ==
  SubSeq(array, Min(from, Len(array)) + 1, Min(to, Len(array)))

\* compareUint8Arrays(a, b): unsigned byte-wise comparison, negative, 0 or positive.
RECURSIVE compareUint8Arrays(_, _)
compareUint8Arrays(a, b) ==
  IF a = <<>> /\ b = <<>> THEN 0
  ELSE IF a = <<>> THEN -1
  ELSE IF b = <<>> THEN 1
  ELSE IF Head(a) # Head(b) THEN Head(a) - Head(b)
  ELSE compareUint8Arrays(Tail(a), Tail(b))

\* ------------------------------------------------------- the curve model
\* The x coordinate shared by the points p and N - p.
XCoord(p) == Min(p, N - p)

\* Whether the point with discrete logarithm p has an even y coordinate:
\* exactly one of p and N - p has (p^3 mod N is an odd function of p), and G has.
HasEvenY(p) == ((p * p * p) % N) * 2 < N

\* Point.toRawBytes(true): the parity byte 02 / 03, then x.
ToCompressed(p) == << IF HasEvenY(p) THEN 2 ELSE 3, XCoord(p) >>

\* Point.toRawBytes(false): 04, x, y (y is kept as its parity).
ToUncompressed(p) == << 4, XCoord(p), IF HasEvenY(p) THEN 0 ELSE 1 >>

ToRawBytes(p, compressed) == IF compressed THEN ToCompressed(p) ELSE ToUncompressed(p)

\* The point of x coordinate x whose y has the given parity (TRUE: even).
LiftX(x, even) == IF HasEvenY(x) = even THEN x ELSE N - x

ValidX(x) == x >= 1 /\ x * 2 < N

\* necc.Point.fromHex: 32 bytes (x only, even y), 33 bytes (compressed) or
\* 65 bytes (uncompressed); 0 stands for the exception it throws.
PointFromHex(b) ==
  IF Len(b) = 1 /\ ValidX(b[1]) THEN LiftX(b[1], TRUE)
  ELSE IF Len(b) = 2 /\ b[1] \in {2, 3} /\ ValidX(b[2]) THEN LiftX(b[2], b[1] = 2)
  ELSE IF Len(b) = 3 /\ b[1] = 4 /\ ValidX(b[2]) /\ b[3] \in {0, 1} THEN LiftX(b[2], b[3] = 0)
  ELSE 0

\* isPoint(p, xOnly)
isPointX(p, xOnly) == IF (Len(p) = 1) # xOnly THEN FALSE ELSE PointFromHex(p) # 0

isPoint(p) == isPointX(p, FALSE)

isXOnlyPoint(p) == isPointX(p, TRUE)

\* necc.utils.isValidPrivateKey: 32 bytes, 0 < d < n.
isPrivate(d) == Len(d) = 1 /\ d[1] > 0 /\ d[1] < N

pointFromScalar(sk) == IF isPrivate(sk) THEN ToCompressed(sk[1]) ELSE NULL

pointCompress(p, compressed) == ToRawBytes(PointFromHex(p), compressed)

\* P.multiply(t) wants 0 < t < n.
pointMultiply(a, tweak) ==
  IF PointFromHex(a) = 0 \/ ~isPrivate(tweak) THEN NULL
  ELSE ToCompressed((PointFromHex(a) * tweak[1]) % N)

\* A.add(B).toRawBytes(): null only when fromHex throws.  Nothing throws for the
\* point at infinity, Point.ZERO = (0, 0), which is written as 02 and a zero x.
pointAdd(a, b, compressed) ==
  IF PointFromHex(a) = 0 \/ PointFromHex(b) = 0 THEN NULL
  ELSE ToRawBytes((PointFromHex(a) + PointFromHex(b)) % N, compressed)

privateAdd(d, tweak) ==
  IF ~isPrivate(d) \/ ~isPrivate(tweak) THEN NULL
  ELSE IF (d[1] + tweak[1]) % N = 0 THEN NULL
  ELSE << (d[1] + tweak[1]) % N >>

privateNegate(d) == << N - d[1] >>

\* The exception privateMultiply throws ("Expected Private").
EXPECTED_PRIVATE == <<-2>>

privateMultiply(d, tweak) ==
  IF ~isPrivate(d) THEN EXPECTED_PRIVATE
  ELSE IF Len(tweak) # 1 THEN NULL
  ELSE IF (d[1] * tweak[1]) % N = 0 THEN NULL
  ELSE << (d[1] * tweak[1]) % N >>

\* The exception getSharedSecret throws on an unusable key.
INVALID_KEY == <<-3>>

\* ECDH: the point pk multiplied by the scalar sk, compressed.
getSharedSecret(sk, pk) ==
  IF ~isPrivate(sk) \/ PointFromHex(pk) = 0 THEN INVALID_KEY
  ELSE ToCompressed((PointFromHex(pk) * sk[1]) % N)

\* The generator, compressed (0279be66...).
G == ToCompressed(1)

\* ------------------------------------------------------------- hashing
\* SHA-256 of a byte string, as one 32-byte value in 0..N.  The digest is a
\* fold over the bytes; a digest of 0 or of N (a number that is no usable
\* scalar) is rare but occurs.
RECURSIVE Sha256Fold(_, _)
Sha256Fold(h, data) ==
  IF data = <<>> THEN h
  ELSE Sha256Fold((h * 5 + Head(data) + 1) % (4 * N), Tail(data))

Sha256(data) ==
  LET h == Sha256Fold(3, data) IN
  << IF h = 0 THEN 0 ELSE IF h = 1 THEN N ELSE 1 + (h % (N - 1)) >>

\* The two tags, as their UTF-8 bytes.
TAG_INPUTS == <<73>>
TAG_SHARED_SECRET == <<83>>

taggedHash(tag, data) ==
  Sha256(concatUint8Arrays(<< Sha256(tag), Sha256(tag), data >>))

\* A variant of _ser32 that writes the low byte first.
ser32LittleEndian(i) ==
  << i % 256, (i \div (2^8)) % 256, (i \div (2^16)) % 256, (i \div (2^24)) % 256 >>

\* The operand of >> and &: the number as a signed 32-bit integer, from its
\* high and low 16 bits.
ToInt32(hi, lo) == IF hi >= 32768 THEN (hi - 65536) * 65536 + lo ELSE hi * 65536 + lo

\* (i >> 24) & 0xff, (i >> 16) & 0xff, (i >> 8) & 0xff, i & 0xff
ser32(i) ==
  << (i \div (2^24)) % 256, (i \div (2^16)) % 256, (i \div (2^8)) % 256, i % 256 >>

\* ------------------------------------------------------------ WIF keys
\* A WIF string: version byte, key, compression flag, checksum; "" is <<>>.
WifChecksum(body) == Sha256(body)[1]

toWIF(d) == << 128, d, 1, WifChecksum(<< 128, d, 1 >>) >>

\* ECPair.fromWIF(wif).privateKey; NULL stands for the exception it throws.
fromWIF(wif) ==
  IF Len(wif) # 4 THEN NULL
  ELSE IF wif[1] # 128 \/ wif[3] # 1 THEN NULL
  ELSE IF wif[4] # WifChecksum(SubSeq(wif, 1, 3)) THEN NULL
  ELSE IF ~isPrivate(<< wif[2] >>) THEN NULL
  ELSE << wif[2] >>

\* -------------------------------------------------- outpoint canonicalizer
\* Array.prototype.sort with the comparator compareUint8Arrays (stable).
RECURSIVE InsertSorted(_, _)
InsertSorted(x, s) ==
  IF s = <<>> THEN << x >>
  ELSE IF compareUint8Arrays(x, Head(s)) < 0 THEN << x >> \o s
  ELSE << Head(s) >> \o InsertSorted(x, Tail(s))

RECURSIVE SortOutpoints(_)
SortOutpoints(s) ==
  IF s = <<>> THEN <<>>
  ELSE InsertSorted(s[Len(s)], SortOutpoints(SubSeq(s, 1, Len(s) - 1)))

\* A variant of UtxoOutpoint that keeps the index as ser32 gives it, most
\* significant byte first.
UtxoOutpointBigEndian(parameter) == Reverse(parameter.txid) \o ser32(parameter.vout)

\* The outpoint of one UTXO: the txid reversed, then ser32(vout) reversed.
UtxoOutpoint(parameter) == Reverse(parameter.txid) \o Reverse(ser32(parameter.vout))

SenderOutpoints(parameters) == [j \in 1..Len(parameters) |-> UtxoOutpoint(parameters[j])]

\* A variant of SenderSmallestOutpoint without the sort: the first in list order.
SenderSmallestOutpointUnsorted(parameters) ==
  IF parameters = <<>> THEN <<>> ELSE SenderOutpoints(parameters)[1]

\* A variant of SenderSmallestOutpoint that looks only at the UTXOs whose key is
\* summed.
SenderSmallestOutpointEligible(parameters) ==
  LET eligible == SelectSeq(parameters, LAMBDA u : u.utxoType # "non-eligible")
  IN IF eligible = <<>> THEN <<>> ELSE SortOutpoints(SenderOutpoints(eligible))[1]

\* outpoints[0] after the sort (undefined, here <<>>, for an empty list).
SenderSmallestOutpoint(parameters) ==
  IF parameters = <<>> THEN <<>> ELSE SortOutpoints(SenderOutpoints(parameters))[1]

outpointsHash(parameters, A) ==
  taggedHash(TAG_INPUTS, concatUint8Arrays(<< SenderSmallestOutpoint(parameters), A >>))

\* ------------------------------------------------------------ _sumPrivkeys
EligibleTypes == {"p2wpkh", "p2sh-p2wpkh", "p2pkh", "p2tr"}
UTXOType == EligibleTypes \cup {"non-eligible"}

\* A variant of KeyPushed with the fallthrough of the earlier _sumPrivkeys moved
\* up: a key of odd y is negated whatever the type of its UTXO.
KeyPushedNegatingOdd(utxo) ==
  IF utxo.utxoType = "non-eligible" THEN <<>>
  ELSE IF pointFromScalar(fromWIF(utxo.wif))[1] = 3
    THEN << privateNegate(fromWIF(utxo.wif)) >>
  ELSE << fromWIF(utxo.wif) >>

\* The key one UTXO pushes to keys, <<>> when it pushes none.
KeyPushed(utxo) ==
  IF utxo.utxoType = "non-eligible" THEN <<>>
  ELSE IF utxo.utxoType = "p2tr" /\ pointFromScalar(fromWIF(utxo.wif))[1] = 3
    THEN << privateNegate(fromWIF(utxo.wif)) >>
  ELSE << fromWIF(utxo.wif) >>

\* The loop over utxos: the keys collected, or the error of the first UTXO whose
\* WIF does not decode.
RECURSIVE CollectKeys(_)
CollectKeys(utxos) ==
  IF utxos = <<>> THEN [error |-> "", keys |-> <<>>]
  ELSE IF fromWIF(Head(utxos).wif) = NULL THEN [error |-> "Invalid WIF", keys |-> <<>>]
  ELSE LET rest == CollectKeys(Tail(utxos))
       IN IF rest.error # "" THEN rest
          ELSE [error |-> "", keys |-> KeyPushed(Head(utxos)) \o rest.keys]

\* keys.reduce((acc, key) => new Uint8Array(ecc.privateAdd(acc, key)))
RECURSIVE ReduceKeys(_, _)
ReduceKeys(acc, keys) ==
  IF keys = <<>> THEN acc
  ELSE ReduceKeys(NewUint8Array(privateAdd(acc, Head(keys))), Tail(keys))

\* A variant of sumPrivkeys without the check of utxos.length.
sumPrivkeysUnchecked(utxos) ==
  IF CollectKeys(utxos).error # "" THEN [error |-> CollectKeys(utxos).error, a |-> <<>>]
  ELSE IF Len(CollectKeys(utxos).keys) = 0
    THEN [error |-> "No eligible UTXOs with private keys found", a |-> <<>>]
  ELSE [error |-> "",
        a |-> ReduceKeys(Head(CollectKeys(utxos).keys), Tail(CollectKeys(utxos).keys))]

sumPrivkeys(utxos) ==
  LET collected == CollectKeys(utxos) IN
  IF Len(utxos) = 0 THEN [error |-> "No UTXOs provided", a |-> <<>>]
  ELSE IF collected.error # "" THEN [error |-> collected.error, a |-> <<>>]
  ELSE IF Len(collected.keys) = 0
    THEN [error |-> "No eligible UTXOs with private keys found", a |-> <<>>]
  ELSE [error |-> "", a |-> ReduceKeys(Head(collected.keys), Tail(collected.keys))]

\* ------------------------------------------------- addresses and targets
\* An address string, by what its codec reads from it:
\*   fmt    "absent" (no address), "base58" or "bech32m"
\*   hrp    the human-readable prefix before the separator "1"
\*   ver    the first 5-bit word
\*   data   the bytes the remaining words pack
\*   intact whether checksum and length pass bech32m.decode(s, 118)
Address(fmt, hrp, ver, data, intact) ==
  [fmt |-> fmt, hrp |-> hrp, ver |-> ver, data |-> data, intact |-> intact]

NO_ADDRESS == Address("absent", "", 0, <<>>, FALSE)

\* target.value when the target has none.
UNDEFINED == 0 - 1

\* An array slot never written (new Array(n)).
HOLE == [address |-> Address("hole", "", 0, <<>>, FALSE), value |-> UNDEFINED]

\* target.address?.startsWith("sp1")
startsWithSp1(address) == address.fmt = "bech32m" /\ address.hrp = "sp"

\* bech32m.encode("sp", [0].concat(toWords(Bscan || Bspend)), 1023)
EncodePaymentCode(Bscan, Bm) == Address("bech32m", "sp", 0, Bscan \o Bm, TRUE)

\* The limit createTransaction and isPaymentCodeValid give to bech32m.decode.
DECODE_LIMIT == 118

HrpLength(hrp) == CASE hrp = "sp" -> 2 [] hrp = "tsp" -> 3 [] hrp = "bc" -> 2 [] OTHER -> 0

\* The 5-bit words of a payload; a key (33 bytes) is two elements of data.
PayloadWords(data) == ((Len(data) \div 2) * 33 * 8 + 4) \div 5

\* The length of the string: prefix, "1", version word, payload, checksum.
EncodedLength(address) == HrpLength(address.hrp) + 2 + PayloadWords(address.data) + 6

\* bech32m.decode(str, limit) returns: the string is bech32m with a checksum
\* that verifies, and is no longer than limit.  The prefix is not looked at.
Bech32mDecodes(address, limit) ==
  address.fmt = "bech32m" /\ address.intact /\ EncodedLength(address) <= limit

\* isPaymentCodeValid(pc): the try block returns false on a version word other
\* than 0, the catch block on a failed decode.
isPaymentCodeValid(code) ==
  IF ~Bech32mDecodes(code, DECODE_LIMIT) THEN FALSE
  ELSE IF code.ver # 0 THEN FALSE
  ELSE TRUE

\* bitcoin.address.fromOutputScript(5120 || hex): a taproot address when hex is
\* a 32-byte x-only key, NO_ADDRESS for "has no matching Address".
pubkeyToAddress(hex) ==
  IF isXOnlyPoint(hex) THEN Address("bech32m", "bc", 1, hex, TRUE) ELSE NO_ADDRESS

\* bitcoin.address.toOutputScript(address): OP_1 (0x51), push 32 (0x20), key for
\* a taproot address; the script of another address holds no 32-byte key.
toOutputScript(address) ==
  IF address.fmt = "bech32m" /\ address.hrp = "bc" /\ address.ver = 1
    THEN << 81, 32 >> \o address.data
  ELSE << 118, 169 >> \o address.data

\* A variant of addressToPubkey that keeps the two bytes before the key.
addressToPubkeyWholeScript(address) == toOutputScript(address)

\* uint8ArrayToHex(toOutputScript(address).subarray(2))
addressToPubkey(address) == SubSeq(toOutputScript(address), 3, Len(toOutputScript(address)))

\* ------------------------------------------------------ createTransaction
\* One iteration of the grouping loop for target i: acc is
\* [error, ret, groups, writes]; writes lists the slots assigned so far.
AddToGroups(groups, Bscan, entry) ==
  IF \E g \in 1..Len(groups) : compareUint8Arrays(groups[g].Bscan, Bscan) = 0
    THEN LET g == CHOOSE h \in 1..Len(groups) :
                    /\ compareUint8Arrays(groups[h].Bscan, Bscan) = 0
                    /\ \A e \in 1..(h - 1) : compareUint8Arrays(groups[e].Bscan, Bscan) # 0
         IN [groups EXCEPT ![g].BmValues = Append(@, entry)]
  ELSE Append(groups, [Bscan |-> Bscan, BmValues |-> << entry >>])

\* A variant of GroupStep that accepts every version word.
GroupStepAnyVersion(acc, targets, i) ==
  LET target == targets[i] IN
  IF ~startsWithSp1(target.address)
    THEN [acc EXCEPT !.ret[i] = target,
                     !.writes = Append(@, [index |-> i, group |-> 0, k |-> 0 - 1])]
  ELSE IF ~target.address.intact
    THEN [acc EXCEPT !.error = "Invalid checksum"]
  ELSE [acc EXCEPT !.groups =
          AddToGroups(@, Slice(target.address.data, 0, 2),
                      << Slice(target.address.data, 2, Len(target.address.data)),
                         target.value, i >>)]

\* A variant of GroupStep that appends a pass-through target (ret.push(target))
\* instead of assigning it to ret[i].
GroupStepAppending(acc, targets, i) ==
  LET target == targets[i] IN
  IF ~startsWithSp1(target.address)
    THEN [acc EXCEPT !.ret[Len(acc.writes) + 1] = target,
                     !.writes = Append(@, [index |-> Len(acc.writes) + 1, group |-> 0,
                                           k |-> 0 - 1])]
  ELSE IF ~target.address.intact
    THEN [acc EXCEPT !.error = "Invalid checksum"]
  ELSE IF target.address.ver # 0
    THEN [acc EXCEPT !.error = "Unexpected version of silent payment code"]
  ELSE [acc EXCEPT !.groups =
          AddToGroups(@, Slice(target.address.data, 0, 2),
                      << Slice(target.address.data, 2, Len(target.address.data)),
                         target.value, i >>)]

GroupStep(acc, targets, i) ==
  LET target == targets[i] IN
  IF ~startsWithSp1(target.address)
    THEN [acc EXCEPT !.ret[i] = target,
                     !.writes = Append(@, [index |-> i, group |-> 0, k |-> 0 - 1])]
  ELSE IF ~target.address.intact
    THEN [acc EXCEPT !.error = "Invalid checksum"]
  ELSE IF target.address.ver # 0
    THEN [acc EXCEPT !.error = "Unexpected version of silent payment code"]
  ELSE [acc EXCEPT !.groups =
          AddToGroups(@, Slice(target.address.data, 0, 2),
                      << Slice(target.address.data, 2, Len(target.address.data)),
                         target.value, i >>)]

RECURSIVE GroupLoop(_, _, _)
GroupLoop(acc, targets, i) ==
  IF i > Len(targets) \/ acc.error # "" THEN acc
  ELSE GroupLoop(GroupStep(acc, targets, i), targets, i + 1)

GroupTargets(targets) ==
  GroupLoop([error |-> "", ret |-> [i \in 1..Len(targets) |-> HOLE],
             groups |-> <<>>, writes |-> <<>>], targets, 1)

\* A variant of ResolveEntry that takes the spend key of the group's first entry.
ResolveEntryFirstSpendKey(acc, g, group, ecdh_shared_secret, j) ==
  LET Bm == group.BmValues[1][1]
      amount == group.BmValues[j][2]
      i == group.BmValues[j][3]
      k == j - 1
      tk == taggedHash(TAG_SHARED_SECRET, concatUint8Arrays(<< ecdh_shared_secret, ser32(k) >>))
      Pmk == NewUint8Array(pointAdd(pointMultiply(G, tk), Bm, TRUE))
      address == pubkeyToAddress(IF Pmk = <<>> THEN <<>> ELSE Tail(Pmk))
  IN IF address = NO_ADDRESS THEN [acc EXCEPT !.error = "has no matching Address"]
     ELSE [acc EXCEPT !.ret[i] = [address |-> address, value |-> amount],
                      !.writes = Append(@, [index |-> i, group |-> g, k |-> k])]

\* A variant of ResolveEntry whose counter k runs on from one group to the next.
ResolveEntrySharedCounter(acc, g, group, ecdh_shared_secret, j) ==
  LET Bm == group.BmValues[j][1]
      amount == group.BmValues[j][2]
      i == group.BmValues[j][3]
      k == Len(SelectSeq(acc.writes, LAMBDA w : w.group > 0))
      tk == taggedHash(TAG_SHARED_SECRET, concatUint8Arrays(<< ecdh_shared_secret, ser32(k) >>))
      Pmk == NewUint8Array(pointAdd(pointMultiply(G, tk), Bm, TRUE))
      address == pubkeyToAddress(IF Pmk = <<>> THEN <<>> ELSE Tail(Pmk))
  IN IF address = NO_ADDRESS THEN [acc EXCEPT !.error = "has no matching Address"]
     ELSE [acc EXCEPT !.ret[i] = [address |-> address, value |-> amount],
                      !.writes = Append(@, [index |-> i, group |-> g, k |-> k])]

\* A variant of ResolveEntry that writes to the first slot still empty
\* (ret.push) instead of the saved index.
ResolveEntryNextSlot(acc, g, group, ecdh_shared_secret, j) ==
  LET Bm == group.BmValues[j][1]
      amount == group.BmValues[j][2]
      i == Len(acc.writes) + 1
      k == j - 1
      tk == taggedHash(TAG_SHARED_SECRET, concatUint8Arrays(<< ecdh_shared_secret, ser32(k) >>))
      Pmk == NewUint8Array(pointAdd(pointMultiply(G, tk), Bm, TRUE))
      address == pubkeyToAddress(IF Pmk = <<>> THEN <<>> ELSE Tail(Pmk))
  IN IF address = NO_ADDRESS THEN [acc EXCEPT !.error = "has no matching Address"]
     ELSE [acc EXCEPT !.ret[i] = [address |-> address, value |-> amount],
                      !.writes = Append(@, [index |-> i, group |-> g, k |-> k])]

\* A variant of ResolveEntry that writes to the index saved with the first entry
\* of the group.
ResolveEntryFirstIndex(acc, g, group, ecdh_shared_secret, j) ==
  LET Bm == group.BmValues[j][1]
      amount == group.BmValues[j][2]
      i == group.BmValues[1][3]
      k == j - 1
      tk == taggedHash(TAG_SHARED_SECRET, concatUint8Arrays(<< ecdh_shared_secret, ser32(k) >>))
      Pmk == NewUint8Array(pointAdd(pointMultiply(G, tk), Bm, TRUE))
      address == pubkeyToAddress(IF Pmk = <<>> THEN <<>> ELSE Tail(Pmk))
  IN IF address = NO_ADDRESS THEN [acc EXCEPT !.error = "has no matching Address"]
     ELSE [acc EXCEPT !.ret[i] = [address |-> address, value |-> amount],
                      !.writes = Append(@, [index |-> i, group |-> g, k |-> k])]

\* One iteration of the inner loop: entry j of group g, with counter k = j - 1.
ResolveEntry(acc, g, group, ecdh_shared_secret, j) ==
  LET Bm == group.BmValues[j][1]
      amount == group.BmValues[j][2]
      i == group.BmValues[j][3]
      k == j - 1
      tk == taggedHash(TAG_SHARED_SECRET, concatUint8Arrays(<< ecdh_shared_secret, ser32(k) >>))
      Pmk == NewUint8Array(pointAdd(pointMultiply(G, tk), Bm, TRUE))
      address == pubkeyToAddress(IF Pmk = <<>> THEN <<>> ELSE Tail(Pmk))
  IN IF address = NO_ADDRESS THEN [acc EXCEPT !.error = "has no matching Address"]
     ELSE [acc EXCEPT !.ret[i] = [address |-> address, value |-> amount],
                      !.writes = Append(@, [index |-> i, group |-> g, k |-> k])]

RECURSIVE ResolveEntries(_, _, _, _, _)
ResolveEntries(acc, g, group, ecdh_shared_secret, j) ==
  IF j > Len(group.BmValues) \/ acc.error # "" THEN acc
  ELSE ResolveEntries(ResolveEntry(acc, g, group, ecdh_shared_secret, j),
                      g, group, ecdh_shared_secret, j + 1)

\* The body of the outer loop for group g.
ResolveGroup(acc, g, a, outpoint_hash) ==
  LET group == acc.groups[g]
      step1 == privateMultiply(outpoint_hash, a)
      ecdh_shared_secret == getSharedSecret(NewUint8Array(step1), group.Bscan)
  IN IF step1 = EXPECTED_PRIVATE THEN [acc EXCEPT !.error = "Expected Private"]
     ELSE IF ecdh_shared_secret = INVALID_KEY THEN [acc EXCEPT !.error = "Invalid key"]
     ELSE ResolveEntries(acc, g, group, ecdh_shared_secret, 1)

RECURSIVE ResolveGroups(_, _, _, _)
ResolveGroups(acc, g, a, outpoint_hash) ==
  IF g > Len(acc.groups) \/ acc.error # "" THEN acc
  ELSE ResolveGroups(ResolveGroup(acc, g, a, outpoint_hash), g + 1, a, outpoint_hash)

\* A variant of createTransaction without the early return of line 77: the keys
\* are summed even when no group was formed.
createTransactionSummingFirst(utxos, targets) ==
  LET grouped == GroupTargets(targets) IN
  IF grouped.error # "" THEN grouped
  ELSE LET sum == sumPrivkeys(utxos) IN
       IF sum.error # "" THEN [grouped EXCEPT !.error = sum.error]
       ELSE LET a == sum.a
                A == NewUint8Array(pointFromScalar(a))
                outpoint_hash == outpointsHash(utxos, A)
            IN ResolveGroups(grouped, 1, a, outpoint_hash)

\* A variant of createTransaction that sums the keys before it decodes the
\* targets.
createTransactionKeysFirst(utxos, targets) ==
  LET grouped == GroupTargets(targets)
      sum == sumPrivkeys(utxos)
  IN
  IF (\E i \in 1..Len(targets) : startsWithSp1(targets[i].address)) /\ sum.error # ""
    THEN [error |-> sum.error, ret |-> grouped.ret, groups |-> <<>>, writes |-> <<>>]
  ELSE IF grouped.error # "" THEN grouped
  ELSE IF Len(grouped.groups) = 0 THEN grouped
  ELSE LET a == sum.a
           A == NewUint8Array(pointFromScalar(a))
           outpoint_hash == outpointsHash(utxos, A)
       IN ResolveGroups(grouped, 1, a, outpoint_hash)

\* createTransaction(utxos, targets): [error, ret, groups, writes]; error is ""
\* when the call returns ret, and the message of the exception otherwise.
createTransaction(utxos, targets) ==
  LET grouped == GroupTargets(targets) IN
  IF grouped.error # "" THEN grouped
  ELSE IF Len(grouped.groups) = 0 THEN grouped
  ELSE LET sum == sumPrivkeys(utxos) IN
       IF sum.error # "" THEN [grouped EXCEPT !.error = sum.error]
       ELSE LET a == sum.a
                A == NewUint8Array(pointFromScalar(a))
                outpoint_hash == outpointsHash(utxos, A)
            IN ResolveGroups(grouped, 1, a, outpoint_hash)

\* ------------------------------------------------------------ transactions
\* What a transaction input holds: hash (the txid in natural byte order), index,
\* and the stacks script.decompile gives for its script and its witness.  A stack
\* element is a byte string.
OP_1 == <<0 - 81>>
SIGNATURE == <<48, 0, 0, 1>>
SCHNORR_SIGNATURE == <<0, 0, 0, 0, 0, 0>>
REDEEM_SCRIPT == <<0, 20, 0, 0, 0>>

\* typeof elem === "number": an opcode.
IsOpcode(elem) == Len(elem) = 1 /\ elem[1] < 0

\* script.isCanonicalPubKey: 33 bytes with prefix 02 / 03, or 65 with prefix 04.
isCanonicalPubKey(elem) ==
  \/ Len(elem) = 2 /\ elem[1] \in {2, 3}
  \/ Len(elem) = 3 /\ elem[1] = 4

\* The input that spends utxo, as the signing wallet builds it: the public key
\* sits in the witness (p2wpkh, p2sh-p2wpkh) or the scriptSig (p2pkh); a taproot
\* key-path input shows no key, so its script is set to the prevout's script
\* (tx.ins[i].script = prevout script).  A non-eligible UTXO whose key the
\* wallet holds is a p2pkh output of an uncompressed key; another one is spent
\* by a script path that shows no key.
InputSpending(utxo) ==
  LET d == fromWIF(utxo.wif)
      base == [hash |-> Reverse(utxo.txid), index |-> utxo.vout]
  IN CASE utxo.utxoType = "p2wpkh" ->
            [hash |-> base.hash, index |-> base.index, script |-> <<>>,
             witness |-> << SIGNATURE, pointFromScalar(d) >>]
       [] utxo.utxoType = "p2sh-p2wpkh" ->
            [hash |-> base.hash, index |-> base.index, script |-> << REDEEM_SCRIPT >>,
             witness |-> << SIGNATURE, pointFromScalar(d) >>]
       [] utxo.utxoType = "p2pkh" ->
            [hash |-> base.hash, index |-> base.index,
             script |-> << SIGNATURE, pointFromScalar(d) >>, witness |-> <<>>]
       [] utxo.utxoType = "p2tr" ->
            [hash |-> base.hash, index |-> base.index,
             script |-> << OP_1, Tail(pointFromScalar(d)) >>,
             witness |-> << SCHNORR_SIGNATURE >>]
       [] OTHER ->
            IF d = NULL
              THEN [hash |-> base.hash, index |-> base.index, script |-> <<>>,
                    witness |-> << SCHNORR_SIGNATURE, REDEEM_SCRIPT >>]
            ELSE [hash |-> base.hash, index |-> base.index,
                  script |-> << SIGNATURE, ToUncompressed(d[1]) >>, witness |-> <<>>]

\* The transaction that spends exactly utxos and pays the resolved targets, in
\* their order; a target without address is the change, paid to a script of the
\* wallet's own.
TransactionSpending(utxos, resolved) ==
  [ins |-> [j \in 1..Len(utxos) |-> InputSpending(utxos[j])],
   outs |-> [j \in 1..Len(resolved) |->
              [script |-> IF resolved[j].address.fmt = "absent" THEN << 0, 20, 9 >>
                          ELSE toOutputScript(resolved[j].address)]]]

\* ---------------------------------------------------------------- receiver
\* stackToPubkeys: the elements that are no opcode and are an x-only point or a
\* canonical public key.
IsStackPubkey(elem) == ~IsOpcode(elem) /\ (isXOnlyPoint(elem) \/ isCanonicalPubKey(elem))

stackToPubkeys(stack) == SelectSeq(stack, IsStackPubkey)

\* The keys one input contributes: from its script, then from its witness.  The
\* nested scripts of the inputs modelled (a p2wpkh redeem script) hold no key.
InputPubkeys(input) ==
  stackToPubkeys(input.script) \o SelectSeq(input.witness, isCanonicalPubKey)

RECURSIVE PubkeysOfInputs(_)
PubkeysOfInputs(ins) ==
  IF ins = <<>> THEN <<>> ELSE InputPubkeys(Head(ins)) \o PubkeysOfInputs(Tail(ins))

getPubkeysFromTransactionInputs(tx) == PubkeysOfInputs(tx.ins)

\* The loop of sumPubKeys from i = 1.
RECURSIVE SumLoop(_, _, _)
SumLoop(result, pubkeys, compressed) ==
  IF pubkeys = <<>> \/ result = NULL THEN result
  ELSE SumLoop(pointAdd(result, Head(pubkeys), compressed), Tail(pubkeys), compressed)

sumPubKeys(pubkeys, compressed) ==
  IF Len(pubkeys) = 0 THEN NULL
  ELSE LET result == SumLoop(Head(pubkeys), Tail(pubkeys), compressed) IN
       IF result = NULL THEN NULL
       ELSE IF Len(result) = 1
         THEN IF isPoint(<< 2 >> \o result) THEN pointCompress(<< 2 >> \o result, compressed)
              ELSE IF isPoint(<< 3 >> \o result) THEN pointCompress(<< 3 >> \o result, compressed)
              ELSE NULL
       ELSE result

ReceiverOutpoints(tx) ==
  [j \in 1..Len(tx.ins) |-> tx.ins[j].hash \o Reverse(ser32(tx.ins[j].index))]

ReceiverSmallestOutpoint(tx) ==
  IF tx.ins = <<>> THEN <<>> ELSE SortOutpoints(ReceiverOutpoints(tx))[1]

\* computeTweakForTx(tx): the tweak, or NULL; concatUint8Arrays throws on a null
\* A, which is NULL here as well.
computeTweakForTx(tx) ==
  LET A == sumPubKeys(getPubkeysFromTransactionInputs(tx), TRUE)
      input_hash == taggedHash(TAG_INPUTS, concatUint8Arrays(<< ReceiverSmallestOutpoint(tx), A >>))
  IN IF A = NULL THEN NULL ELSE pointMultiply(A, input_hash)

\* The child key bip32 derives from the seed of the mnemonic and passphrase at
\* m/352'/0'/account'/branch'/0 (branch 1: scan, branch 0: spend).
DeriveKey(bip39seed, passphrase, accountNum, branch) ==
  << ((bip39seed * 4 + passphrase * 3 + accountNum * 2 + branch) % (N - 1)) + 1 >>

seedToCode(bip39seed, accountNum, passphrase) ==
  LET bscan == DeriveKey(bip39seed, passphrase, accountNum, 1)
      bspend == DeriveKey(bip39seed, passphrase, accountNum, 0)
  IN [address |-> EncodePaymentCode(pointFromScalar(bscan), pointFromScalar(bspend)),
      Bscan |-> pointFromScalar(bscan), bscan |-> bscan,
      Bspend |-> pointFromScalar(bspend), bspend |-> bspend]

\* tx.getId()
TxId(tx) ==
  Sha256(concatUint8Arrays(ReceiverOutpoints(tx)) \o
         concatUint8Arrays([j \in 1..Len(tx.outs) |-> tx.outs[j].script]))

\* A variant of the loop that takes every taproot output for a match.
RECURSIVE DetectLoopAnyTaproot(_, _, _, _, _, _)
DetectLoopAnyTaproot(acc, tx, j, pubkeyHex, bspend, t_k) ==
  IF j > Len(tx.outs) THEN acc
  ELSE IF SubSeq(tx.outs[j].script, 1, 2) = << 81, 32 >>
    THEN DetectLoopAnyTaproot(
           [vout |-> acc.vout + 1,
            ret |-> Append(acc.ret,
                      [txid |-> TxId(tx), vout |-> acc.vout,
                       wif |-> toWIF(privateAdd(bspend, t_k)[1]), utxoType |-> "p2tr"])],
           tx, j + 1, pubkeyHex, bspend, t_k)
  ELSE DetectLoopAnyTaproot([acc EXCEPT !.vout = @ + 1], tx, j + 1, pubkeyHex, bspend, t_k)

\* A variant of the loop whose vout counts the matching outputs only.
RECURSIVE DetectLoopCountingMatches(_, _, _, _, _, _)
DetectLoopCountingMatches(acc, tx, j, pubkeyHex, bspend, t_k) ==
  IF j > Len(tx.outs) THEN acc
  ELSE IF tx.outs[j].script = << 81, 32 >> \o pubkeyHex
    THEN IF privateAdd(bspend, t_k) = NULL
           THEN DetectLoopCountingMatches(acc, tx, j + 1, pubkeyHex, bspend, t_k)
         ELSE DetectLoopCountingMatches(
                [vout |-> acc.vout + 1,
                 ret |-> Append(acc.ret,
                           [txid |-> TxId(tx), vout |-> acc.vout,
                            wif |-> toWIF(privateAdd(bspend, t_k)[1]), utxoType |-> "p2tr"])],
                tx, j + 1, pubkeyHex, bspend, t_k)
  ELSE DetectLoopCountingMatches(acc, tx, j + 1, pubkeyHex, bspend, t_k)

\* The loop over tx.outs from output j on: acc is [vout, ret]; the continue of
\* a failed key addition leaves vout as it is.
RECURSIVE DetectLoop(_, _, _, _, _, _)
DetectLoop(acc, tx, j, pubkeyHex, bspend, t_k) ==
  IF j > Len(tx.outs) THEN acc
  ELSE IF tx.outs[j].script = << 81, 32 >> \o pubkeyHex
    THEN IF privateAdd(bspend, t_k) = NULL
           THEN DetectLoop(acc, tx, j + 1, pubkeyHex, bspend, t_k)
         ELSE DetectLoop(
                [vout |-> acc.vout + 1,
                 ret |-> Append(acc.ret,
                           [txid |-> TxId(tx), vout |-> acc.vout,
                            wif |-> toWIF(privateAdd(bspend, t_k)[1]), utxoType |-> "p2tr"])],
                tx, j + 1, pubkeyHex, bspend, t_k)
  ELSE DetectLoop([acc EXCEPT !.vout = @ + 1], tx, j + 1, pubkeyHex, bspend, t_k)

\* A variant of detectOurUtxos that looks for the output of counter k = 1.
detectOurUtxosNextCounter(tx, seed, tweakHex) ==
  LET code == seedToCode(seed, 0, 0)
      sharedSecret == getSharedSecret(code.bscan, tweakHex)
      t_k == taggedHash(TAG_SHARED_SECRET, concatUint8Arrays(<< sharedSecret, ser32(1) >>))
      P_k == pointAdd(pointMultiply(G, t_k), code.Bspend, TRUE)
      pubkeyHex == IF P_k[1] \in {2, 3} THEN Tail(P_k) ELSE P_k
  IN IF sharedSecret = INVALID_KEY THEN [error |-> "Invalid key", ret |-> <<>>]
     ELSE IF P_k = NULL THEN [error |-> "TypeError", ret |-> <<>>]
     ELSE [error |-> "",
           ret |-> DetectLoop([vout |-> 0, ret |-> <<>>], tx, 1, pubkeyHex, code.bspend, t_k).ret]

\* A variant of detectOurUtxos that scans with the keys of account 1.
detectOurUtxosAccountOne(tx, seed, tweakHex) ==
  LET code == seedToCode(seed, 1, 0)
      sharedSecret == getSharedSecret(code.bscan, tweakHex)
      t_k == taggedHash(TAG_SHARED_SECRET, concatUint8Arrays(<< sharedSecret, ser32(0) >>))
      P_k == pointAdd(pointMultiply(G, t_k), code.Bspend, TRUE)
      pubkeyHex == IF P_k[1] \in {2, 3} THEN Tail(P_k) ELSE P_k
  IN IF sharedSecret = INVALID_KEY THEN [error |-> "Invalid key", ret |-> <<>>]
     ELSE IF P_k = NULL THEN [error |-> "TypeError", ret |-> <<>>]
     ELSE [error |-> "",
           ret |-> DetectLoop([vout |-> 0, ret |-> <<>>], tx, 1, pubkeyHex, code.bspend, t_k).ret]

\* detectOurUtxos(tx, seed, tweakHex): [error, ret].
detectOurUtxos(tx, seed, tweakHex) ==
  LET code == seedToCode(seed, 0, 0)
      sharedSecret == getSharedSecret(code.bscan, tweakHex)
      t_k == taggedHash(TAG_SHARED_SECRET, concatUint8Arrays(<< sharedSecret, ser32(0) >>))
      P_k == pointAdd(pointMultiply(G, t_k), code.Bspend, TRUE)
      pubkeyHex == IF P_k[1] \in {2, 3} THEN Tail(P_k) ELSE P_k
  IN IF sharedSecret = INVALID_KEY THEN [error |-> "Invalid key", ret |-> <<>>]
     ELSE IF P_k = NULL THEN [error |-> "TypeError", ret |-> <<>>]
     ELSE [error |-> "",
           ret |-> DetectLoop([vout |-> 0, ret |-> <<>>], tx, 1, pubkeyHex, code.bspend, t_k).ret]

\* ------------------------------------------------------------------ inputs
SeqsUpTo(S, n) == UNION {[1..m -> S] : m \in 0..n}

Utxo(txid, vout, wif, utxoType) ==
  [txid |-> txid, vout |-> vout, wif |-> wif, utxoType |-> utxoType]

\* Transaction ids, as displayed.
TXID_A == <<0, 1>>
TXID_B == <<1, 0>>
TXID_C == <<1, 1>>

\* WIF strings: the empty string, and the keys 1 (even y), 2 and n - 1 (odd y).
Wifs == {<<>>, toWIF(1), toWIF(N - 1)}

\* The UTXOs of the lists that vary keys and types.
KeyUtxos ==
  {Utxo(o[1], o[2], w, t) : o \in {<<TXID_A, 0>>, <<TXID_B, 1>>}, w \in Wifs, t \in UTXOType}

\* The UTXOs of the lists that vary outpoints.
OutpointUtxos ==
  {Utxo(txid, vout, toWIF(2), t) : txid \in {TXID_A, TXID_B, TXID_C}, vout \in {0, 1, 256},
                                   t \in {"p2wpkh"}}

\* Lists of three p2wpkh UTXOs with the keys 1, n - 1 and 2 in every order: two
\* of the keys sum to 0 mod n and the sum of the three is 2.
CancellingUtxoLists ==
  {<< Utxo(TXID_A, 0, toWIF(k[1]), "p2wpkh"), Utxo(TXID_B, 1, toWIF(k[2]), "p2wpkh"),
      Utxo(TXID_C, 0, toWIF(k[3]), "p2wpkh") >> :
     k \in {<< 1, N - 1, 2 >>, << 1, 2, N - 1 >>, << 2, 1, N - 1 >>}}

\* The UTXO lists the target lists are resolved with.
WalletUtxoLists ==
  { << Utxo(TXID_A, 0, toWIF(1), "p2wpkh") >>,
    << Utxo(TXID_B, 1, toWIF(N - 1), "p2tr"), Utxo(TXID_A, 0, toWIF(2), "p2pkh") >>,
    << Utxo(TXID_A, 1, <<>>, "non-eligible") >>,
    <<>> }

\* Recipients: a payment code of a seed, and the labelled code of the same
\* recipient (same scan key, spend key moved by label * G).
Seeds == {1, 2}

LabelledCode(seed, label) ==
  EncodePaymentCode(seedToCode(seed, 0, 0).Bscan,
                    pointAdd(seedToCode(seed, 0, 0).Bspend, pointFromScalar(<< label >>), TRUE))

BASE58_ADDRESS == Address("base58", "", 0, <<5>>, TRUE)

\* A payment code with version word 1, and one whose checksum fails.
VERSION_1_CODE == [seedToCode(1, 0, 0).address EXCEPT !.ver = 1]
BROKEN_CODE == [seedToCode(1, 0, 0).address EXCEPT !.intact = FALSE]

TargetAddresses ==
  { NO_ADDRESS, BASE58_ADDRESS, seedToCode(1, 0, 0).address, LabelledCode(1, 2),
    seedToCode(2, 0, 0).address, VERSION_1_CODE, BROKEN_CODE }

\* The value of the target at position i, when it has one.
AmountAt(i) == 1000 * i

\* The target list of m targets with the addresses and the presence of a value
\* that f gives for each position.
TargetList(m, f) ==
  [i \in 1..m |-> [address |-> f[i][1],
                   value |-> IF f[i][2] THEN AmountAt(i) ELSE UNDEFINED]]

Target(address, value) == [address |-> address, value |-> value]

\* The target lists the UTXO lists are spent to.
RecipientTargetLists ==
  { << Target(seedToCode(1, 0, 0).address, AmountAt(1)) >>,
    << Target(BASE58_ADDRESS, AmountAt(1)), Target(seedToCode(2, 0, 0).address, UNDEFINED) >>,
    << Target(seedToCode(1, 0, 0).address, AmountAt(1)), Target(LabelledCode(1, 2), AmountAt(2)) >>,
    << Target(BASE58_ADDRESS, AmountAt(1)), Target(NO_ADDRESS, AmountAt(2)) >> }

\* Accounts other than the one of the defaults of seedToCode (accountNum 0,
\* passphrase ''), as pairs of accountNum and passphrase, and the target lists
\* that pay to their codes.
OtherAccounts == {<< 1, 0 >>, << 0, 1 >>}

OtherAccountTargetLists ==
  {<< Target(seedToCode(seed, ap[1], ap[2]).address, AmountAt(1)) >> :
     seed \in Seeds, ap \in OtherAccounts}
    \cup {<< Target(seedToCode(1, 1, 0).address, AmountAt(1)),
             Target(seedToCode(1, 0, 0).address, AmountAt(2)) >>}

\* ----------------------------------------------------------- state machine
VARIABLES
  utxos,    \* the UTXO list given to createTransaction
  targets,  \* the target list given to createTransaction
  pc,       \* "start", "failed", "resolved", "again", "signed", "tweaked",
            \* "retweaked", "scanned", "foreign"; "called", "returned", "converted",
            \* "paid"
  error,    \* the message createTransaction threw, "" if none
  ret,      \* the array createTransaction returned
  writes,   \* the assignments ret[i] = ... createTransaction made, in order
  tx,       \* the transaction spending utxos to ret
  tweak,    \* what computeTweakForTx(tx) returned
  scan,     \* the call of detectOurUtxos: [seed, tweakHex, error, ret]
  call,     \* a further call of one method: [op, arg]
  result    \* what that call returned or threw

vars == << utxos, targets, pc, error, ret, writes, tx, tweak, scan, call, result >>

NO_TX == [ins |-> <<>>, outs |-> <<>>]
NO_SCAN == [seed |-> 0, tweakHex |-> <<>>, error |-> "", ret |-> <<>>]
NO_CALL == [op |-> "", arg |-> <<>>]
NO_RESULT == [error |-> "", value |-> <<>>]

Init ==
  /\ \/ /\ utxos \in WalletUtxoLists
        /\ \E m \in 0..MaxTargets : \E f \in [1..m -> TargetAddresses \X BOOLEAN] :
             targets = TargetList(m, f)
     \/ utxos \in SeqsUpTo(KeyUtxos, MaxUtxos) /\ targets \in RecipientTargetLists
     \/ utxos \in SeqsUpTo(OutpointUtxos, MaxUtxos) /\ targets \in RecipientTargetLists
     \/ utxos \in CancellingUtxoLists /\ targets \in RecipientTargetLists
     \/ /\ utxos \in {<< Utxo(TXID_A, 0, toWIF(1), "p2wpkh") >>,
                       << Utxo(TXID_B, 1, toWIF(N - 1), "p2tr") >>}
        /\ targets \in OtherAccountTargetLists
  /\ pc = "start"
  /\ error = ""
  /\ ret = <<>>
  /\ writes = <<>>
  /\ tx = NO_TX
  /\ tweak = NULL
  /\ scan = NO_SCAN
  /\ call = NO_CALL
  /\ result = NO_RESULT

\* The arguments as a call of createTransaction leaves them: it reads utxos and
\* targets, and reverses and sorts only arrays of its own.
UtxosAfterCreateTransaction(us) == us
TargetsAfterCreateTransaction(ts) == ts

\* The sender resolves its targets.
CreateTransaction ==
  /\ pc = "start"
  /\ LET r == createTransaction(utxos, targets) IN
       /\ error' = r.error
       /\ ret' = IF r.error = "" THEN r.ret ELSE <<>>
       /\ writes' = r.writes
       /\ pc' = IF r.error = "" THEN "resolved" ELSE "failed"
  /\ utxos' = UtxosAfterCreateTransaction(utxos)
  /\ targets' = TargetsAfterCreateTransaction(targets)
  /\ UNCHANGED << tx, tweak, scan, call, result >>

\* The sender calls createTransaction once more, on the same object and with
\* the same arguments.
CreateTransactionAgain ==
  /\ pc \in {"resolved", "failed"}
  /\ LET r == createTransaction(utxos, targets) IN
       result' = [error |-> r.error, value |-> IF r.error = "" THEN r.ret ELSE <<>>]
  /\ call' = [op |-> "createTransaction", arg |-> << utxos, targets >>]
  /\ pc' = "again"
  /\ UNCHANGED << utxos, targets, error, ret, writes, tx, tweak, scan >>

\* The wallet can sign for a UTXO list: no outpoint is spent twice, and it holds
\* the key of every eligible UTXO.
CanSign(us) ==
  /\ Len(us) > 0
  /\ \A h, j \in 1..Len(us) : h # j => UtxoOutpoint(us[h]) # UtxoOutpoint(us[j])
  /\ \A j \in 1..Len(us) : us[j].utxoType \in EligibleTypes => fromWIF(us[j].wif) # NULL

\* The sender's wallet builds the transaction that spends utxos to ret.
SignTransaction ==
  /\ pc = "resolved"
  /\ CanSign(utxos)
  /\ Len(ret) > 0
  /\ tx' = TransactionSpending(utxos, ret)
  /\ pc' = "signed"
  /\ UNCHANGED << utxos, targets, error, ret, writes, tweak, scan, call, result >>

\* The hashes of the inputs reversed in place (inn.hash.reverse()).
TxWithHashesReversed(t) ==
  [t EXCEPT !.ins = [j \in 1..Len(t.ins) |-> [t.ins[j] EXCEPT !.hash = Reverse(@)]]]

\* The transaction as computeTweakForTx leaves it: inn.hash is read, and the
\* array reversed in place is the one _ser32 has just made.
TxAfterComputeTweak(t) == t

\* An indexer computes the tweak of the transaction.
ComputeTweakForTx ==
  /\ pc = "signed"
  /\ tweak' = computeTweakForTx(tx)
  /\ tx' = TxAfterComputeTweak(tx)
  /\ pc' = "tweaked"
  /\ UNCHANGED << utxos, targets, error, ret, writes, scan, call, result >>

\* The indexer computes the tweak of the same transaction object once more.
ComputeTweakForTxAgain ==
  /\ pc = "tweaked"
  /\ result' = [error |-> "", value |-> computeTweakForTx(tx)]
  /\ call' = [op |-> "computeTweakForTx", arg |-> tx]
  /\ pc' = "retweaked"
  /\ UNCHANGED << utxos, targets, error, ret, writes, tx, tweak, scan >>

\* The tweaks a backend may hand to the receiver: any point.
TweakHexes == {ToCompressed(p) : p \in 1..(N - 1)}

\* A receiver scans the transaction.
DetectOurUtxos ==
  /\ pc = "tweaked"
  /\ \E seed \in Seeds, tweakHex \in TweakHexes :
       LET r == detectOurUtxos(tx, seed, tweakHex) IN
       scan' = [seed |-> seed, tweakHex |-> tweakHex, error |-> r.error, ret |-> r.ret]
  /\ pc' = "scanned"
  /\ UNCHANGED << utxos, targets, error, ret, writes, tx, tweak, call, result >>

\* Transactions of other wallets: one p2wpkh input, and one or two outputs that
\* are taproot scripts of any 32 bytes (the zero bytes among them) or a p2wpkh
\* script.
ForeignScripts == {<< 81, 32, x >> : x \in 0..((N - 1) \div 2)} \cup {<< 0, 20, 9 >>}

ForeignTransactions ==
  {[ins |-> << InputSpending(Utxo(TXID_C, 0, toWIF(2), "p2wpkh")) >>,
    outs |-> [j \in 1..Len(scripts) |-> [script |-> scripts[j]]]] :
     scripts \in SeqsUpTo(ForeignScripts, 2) \ {<<>>}}

\* A receiver that sends nothing scans a transaction of another wallet, with
\* the tweak a backend hands it.
ScanForeignTransaction ==
  /\ pc = "start"
  /\ utxos = <<>>
  /\ targets = <<>>
  /\ \E t \in ForeignTransactions, seed \in Seeds, tweakHex \in TweakHexes :
       LET r == detectOurUtxos(t, seed, tweakHex) IN
       /\ tx' = t
       /\ scan' = [seed |-> seed, tweakHex |-> tweakHex, error |-> r.error, ret |-> r.ret]
  /\ pc' = "foreign"
  /\ UNCHANGED << utxos, targets, error, ret, writes, tweak, call, result >>

Next ==
  \/ ScanForeignTransaction
  \/ CreateTransaction
  \/ CreateTransactionAgain
  \/ SignTransaction
  \/ ComputeTweakForTx
  \/ ComputeTweakForTxAgain
  \/ DetectOurUtxos

Spec == Init /\ [][Next]_vars

\* ------------------------------------------- calls of the static helpers
\* Strings given to isPaymentCodeValid: bech32m, bech32 or neither, with the
\* prefix sp or tsp, version word 0 or 1, none to three keys of payload, and a
\* checksum that verifies or not.
CodeStrings ==
  { Address(fmt, hrp, ver, data, intact) :
      fmt \in {"bech32m", "bech32", "garbage"}, hrp \in {"sp", "tsp"}, ver \in {0, 1},
      data \in { <<>>, seedToCode(1, 0, 0).Bscan,
                 seedToCode(1, 0, 0).Bscan \o seedToCode(1, 0, 0).Bspend,
                 seedToCode(1, 0, 0).Bscan \o seedToCode(1, 0, 0).Bspend \o G },
      intact \in BOOLEAN }

\* Numbers given to _ser32, as their high and low 16 bits: 0, 1, 444 and the
\* edges of the bytes and of the sign bit.
Ser32Numbers ==
  {<< hi, lo >> : hi \in {0, 1, 255, 256, 32767, 32768, 65535},
                 lo \in {0, 1, 255, 256, 444, 65535}}

\* Hex strings given to pubkeyToAddress: 32 bytes (x coordinates of points and
\* others), the same prefixed with 5120, a compressed key and the empty string.
KeyHexes ==
  {<< x >> : x \in 0..N} \cup {<< 81, 32, x >> : x \in 1..((N - 1) \div 2)}
    \cup {<< 2, x >> : x \in 1..2} \cup {<<>>}

\* Byte strings given to the scalar operations: 32 bytes of every value from 0
\* to above n, and the empty array.
ScalarBytes == {<< x >> : x \in 0..(N + 1)} \cup {<<>>}

\* Keys as getPubkeysFromTransactionInputs extracts them: the points G, 2G and
\* -G, each x-only, compressed and uncompressed; and the lists of up to three.
ExtractedKeys ==
  UNION {{<< XCoord(p) >>, ToCompressed(p), ToUncompressed(p)} : p \in {1, 2, N - 1}}

MaxKeys == 3

HelperCalls ==
  {[op |-> "isPaymentCodeValid", arg |-> code] : code \in CodeStrings}
    \cup {[op |-> "sumPubKeys", arg |-> keys] : keys \in SeqsUpTo(ExtractedKeys, MaxKeys)}
    \cup {[op |-> "privateAdd", arg |-> << d, t >>] : d \in ScalarBytes, t \in ScalarBytes}
    \cup {[op |-> "privateMultiply", arg |-> << d, t >>] : d \in ScalarBytes, t \in ScalarBytes}
    \cup {[op |-> "_ser32", arg |-> i] : i \in Ser32Numbers}
    \cup {[op |-> "pubkeyToAddress", arg |-> hex] : hex \in KeyHexes}

HelperInit ==
  /\ call \in HelperCalls
  /\ pc = "called"
  /\ result = NO_RESULT
  /\ utxos = <<>>
  /\ targets = <<>>
  /\ error = ""
  /\ ret = <<>>
  /\ writes = <<>>
  /\ tx = NO_TX
  /\ tweak = NULL
  /\ scan = NO_SCAN

IsPaymentCodeValid ==
  /\ pc = "called"
  /\ call.op = "isPaymentCodeValid"
  /\ result' = [error |-> "", value |-> isPaymentCodeValid(call.arg)]
  /\ pc' = "returned"
  /\ UNCHANGED << utxos, targets, error, ret, writes, tx, tweak, scan, call >>

Ser32 ==
  /\ pc = "called"
  /\ call.op = "_ser32"
  /\ result' = [error |-> "", value |-> ser32(ToInt32(call.arg[1], call.arg[2]))]
  /\ pc' = "returned"
  /\ UNCHANGED << utxos, targets, error, ret, writes, tx, tweak, scan, call >>

PubkeyToAddress ==
  /\ pc = "called"
  /\ call.op = "pubkeyToAddress"
  /\ result' = IF pubkeyToAddress(call.arg) = NO_ADDRESS
                 THEN [error |-> "has no matching Address", value |-> <<>>]
               ELSE [error |-> "", value |-> pubkeyToAddress(call.arg)]
  /\ pc' = "returned"
  /\ UNCHANGED << utxos, targets, error, ret, writes, tx, tweak, scan, call >>

\* The address pubkeyToAddress returned is given to addressToPubkey.
AddressToPubkey ==
  /\ pc = "returned"
  /\ call.op = "pubkeyToAddress"
  /\ result.error = ""
  /\ call' = [op |-> "addressToPubkey", arg |-> result.value]
  /\ result' = [error |-> "", value |-> addressToPubkey(result.value)]
  /\ pc' = "converted"
  /\ UNCHANGED << utxos, targets, error, ret, writes, tx, tweak, scan >>

PrivateAdd ==
  /\ pc = "called"
  /\ call.op = "privateAdd"
  /\ result' = [error |-> "", value |-> privateAdd(call.arg[1], call.arg[2])]
  /\ pc' = "returned"
  /\ UNCHANGED << utxos, targets, error, ret, writes, tx, tweak, scan, call >>

PrivateMultiply ==
  /\ pc = "called"
  /\ call.op = "privateMultiply"
  /\ result' = IF privateMultiply(call.arg[1], call.arg[2]) = EXPECTED_PRIVATE
                 THEN [error |-> "Expected Private", value |-> <<>>]
               ELSE [error |-> "", value |-> privateMultiply(call.arg[1], call.arg[2])]
  /\ pc' = "returned"
  /\ UNCHANGED << utxos, targets, error, ret, writes, tx, tweak, scan, call >>

\* A wallet that was told the code is valid pays to it from one p2wpkh UTXO.
PayToValidatedCode ==
  /\ pc = "returned"
  /\ call.op = "isPaymentCodeValid"
  /\ result.value = TRUE
  /\ utxos' = << Utxo(TXID_A, 0, toWIF(1), "p2wpkh") >>
  /\ targets' = << Target(call.arg, AmountAt(1)) >>
  /\ LET r == createTransaction(utxos', targets') IN
       /\ error' = r.error
       /\ ret' = IF r.error = "" THEN r.ret ELSE <<>>
       /\ writes' = r.writes
  /\ pc' = "paid"
  /\ UNCHANGED << tx, tweak, scan, call, result >>

\* computeTweakForTx's call: compressed is left at its default, true.
SumPubKeys ==
  /\ pc = "called"
  /\ call.op = "sumPubKeys"
  /\ result' = [error |-> "", value |-> sumPubKeys(call.arg, TRUE)]
  /\ pc' = "returned"
  /\ UNCHANGED << utxos, targets, error, ret, writes, tx, tweak, scan, call >>

HelperNext ==
  \/ IsPaymentCodeValid
  \/ SumPubKeys
  \/ PayToValidatedCode
  \/ PrivateAdd
  \/ PrivateMultiply
  \/ Ser32
  \/ PubkeyToAddress
  \/ AddressToPubkey

HelperSpec == HelperInit /\ [][HelperNext]_vars

\* ------------------------------------------------------------ properties
\* createTransaction has returned (without throwing).
Returned ==
  \/ pc \in {"resolved", "signed", "tweaked", "retweaked", "scanned"}
  \/ pc = "again" /\ error = ""

\* createTransaction has thrown.
Failed ==
  \/ pc = "failed"
  \/ pc = "again" /\ error # ""

\* createTransaction has been called and has returned or thrown.
Called == pc \notin {"start", "foreign"}

\* createTransaction has just returned or thrown: no later step has been taken.
\* The later steps leave utxos, targets, error, ret and writes as they are.
JustCalled == pc \in {"resolved", "failed"}

IsPaymentCodeTarget(target) == startsWithSp1(target.address)

HasPaymentCode(ts) == \E i \in 1..Len(ts) : IsPaymentCodeTarget(ts[i])

\* The scan key and the spend key a payment-code target carries.
ScanKeyOf(target) == SubSeq(target.address.data, 1, 2)
SpendKeyOf(target) == SubSeq(target.address.data, 3, 4)

\* C1: when createTransaction returns, the result has as many entries as the
\* target list, and every target that is no payment code is found unchanged at
\* its own index.
C1_OrderPreservation ==
  Returned =>
    /\ Len(ret) = Len(targets)
    /\ \A i \in 1..Len(targets) :
         ~IsPaymentCodeTarget(targets[i]) => ret[i] = targets[i]

\* A returned call with a pass-through target behind a payment-code target.
C1_Witness ==
  /\ Returned
  /\ \E i, j \in 1..Len(targets) :
       /\ i < j
       /\ IsPaymentCodeTarget(targets[i])
       /\ ~IsPaymentCodeTarget(targets[j])
       /\ ret[j] = targets[j]

\* The number of payment-code targets before index i that share its scan key.
EarlierInGroup(ts, i) ==
  Cardinality({h \in 1..(i - 1) :
                 IsPaymentCodeTarget(ts[h]) /\ ScanKeyOf(ts[h]) = ScanKeyOf(ts[i])})

\* The sender's shared point with the recipient of scan key Bscan, as a discrete
\* logarithm: (outpoint_hash * a) * Bscan.
SenderAggregate(us) == sumPrivkeys(us).a

SenderInputHash(us) == outpointsHash(us, NewUint8Array(pointFromScalar(SenderAggregate(us))))

SenderSharedPoint(us, Bscan) ==
  LET a == SenderAggregate(us)
      input_hash == outpointsHash(us, NewUint8Array(pointFromScalar(a)))
  IN (input_hash[1] * a[1] * PointFromHex(Bscan)) % N

\* The output key P_k = t_k * G + Bm of counter k, as a discrete logarithm.
ExpectedOutputPoint(us, Bscan, Bm, k) ==
  LET t_k == taggedHash(TAG_SHARED_SECRET,
                        ToCompressed(SenderSharedPoint(us, Bscan)) \o ser32(k))
  IN (t_k[1] + PointFromHex(Bm)) % N

TaprootAddressOf(p) == Address("bech32m", "bc", 1, << XCoord(p) >>, TRUE)

\* C2: every payment-code target at index i is resolved at index i, to the
\* taproot address of the x-only coordinate of P_k = t_k * G + Bm for its own
\* spend key Bm, with the value of targets[i].
C2_ResolvedAtOwnIndex ==
  (JustCalled /\ error = "") =>
    \A i \in 1..Len(targets) :
      IsPaymentCodeTarget(targets[i]) =>
        /\ ret[i].address =
             TaprootAddressOf(ExpectedOutputPoint(utxos, ScanKeyOf(targets[i]),
                                                  SpendKeyOf(targets[i]),
                                                  EarlierInGroup(targets, i)))
        /\ ret[i].value = targets[i].value

\* A returned call that resolved two payment codes of one recipient with
\* different spend keys and different values, one of them without value.
C2_Witness ==
  /\ Returned
  /\ \E i, j \in 1..Len(targets) :
       /\ i < j
       /\ IsPaymentCodeTarget(targets[i]) /\ IsPaymentCodeTarget(targets[j])
       /\ ScanKeyOf(targets[i]) = ScanKeyOf(targets[j])
       /\ SpendKeyOf(targets[i]) # SpendKeyOf(targets[j])
       /\ targets[i].value = UNDEFINED /\ targets[j].value # UNDEFINED
       /\ ret[i].address # ret[j].address

\* C3: with no payment-code target the call returns the target list unchanged,
\* whatever the UTXO list: empty, or with keys that do not decode.
C3_PassThroughOnly ==
  (Called /\ ~HasPaymentCode(targets)) => (error = "" /\ Returned /\ ret = targets)

\* A pass-through call with a UTXO of an eligible type whose WIF does not decode.
C3_Witness ==
  /\ Returned
  /\ Len(targets) > 0
  /\ ~HasPaymentCode(targets)
  /\ ret = targets
  /\ \E j \in 1..Len(utxos) :
       utxos[j].utxoType \in EligibleTypes /\ fromWIF(utxos[j].wif) = NULL

\* The assignments to ret made for payment-code targets.
ResolvedWrites == SelectSeq(writes, LAMBDA w : w.group > 0)

\* C4: the j-th payment-code target of a scan key, in target order, is derived
\* with k = j (from 0), and the entries of a group are derived in target order.
C4_GroupCounter ==
  Returned =>
    /\ \A i \in 1..Len(targets) :
         IsPaymentCodeTarget(targets[i]) =>
           \E n \in 1..Len(ResolvedWrites) :
             /\ ResolvedWrites[n].index = i
             /\ ResolvedWrites[n].k = EarlierInGroup(targets, i)
    /\ \A m, n \in 1..Len(ResolvedWrites) :
         (m < n /\ ResolvedWrites[m].group = ResolvedWrites[n].group) =>
           /\ ResolvedWrites[m].index < ResolvedWrites[n].index
           /\ ResolvedWrites[m].k < ResolvedWrites[n].k
           /\ ScanKeyOf(targets[ResolvedWrites[m].index])
                = ScanKeyOf(targets[ResolvedWrites[n].index])

\* A returned call with two targets of one scan key and different spend keys,
\* and a target of another scan key between them.
C4_Witness ==
  /\ Returned
  /\ \E h, i, j \in 1..Len(targets) :
       /\ h < i /\ i < j
       /\ IsPaymentCodeTarget(targets[h]) /\ IsPaymentCodeTarget(targets[i])
       /\ IsPaymentCodeTarget(targets[j])
       /\ ScanKeyOf(targets[h]) = ScanKeyOf(targets[j])
       /\ SpendKeyOf(targets[h]) # SpendKeyOf(targets[j])
       /\ ScanKeyOf(targets[h]) # ScanKeyOf(targets[i])
       /\ \E m, n \in 1..Len(ResolvedWrites) :
            /\ ResolvedWrites[m].index = h /\ ResolvedWrites[m].k = 0
            /\ ResolvedWrites[n].index = j /\ ResolvedWrites[n].k = 1

\* The transaction is built and computeTweakForTx has just run on it; the scan
\* that follows leaves utxos, ret, tx and tweak as they are.
Tweaked == pc = "tweaked"

\* The tweak of BIP-352 for the sender's inputs: outpoint_hash * A for A = a * G,
\* a the sum _sumPrivkeys forms and outpoint_hash what _outpointsHash returns.
SenderTweak(us) ==
  LET A == NewUint8Array(pointFromScalar(SenderAggregate(us)))
  IN pointMultiply(A, outpointsHash(us, A))

\* C5: a single target that is the payment code of a seed is resolved, and
\* detectOurUtxos with that seed and the tweak of the sender's inputs finds
\* exactly one UTXO, whose key has the x-only public key of the resolved output.
C5_RoundTrip ==
  ( /\ pc = "scanned"
    /\ Len(targets) = 1
    /\ targets[1].address = seedToCode(scan.seed, 0, 0).address
    /\ scan.tweakHex = SenderTweak(utxos) )
  => /\ scan.error = ""
     /\ Len(scan.ret) = 1
     /\ Tail(pointFromScalar(fromWIF(scan.ret[1].wif))) = addressToPubkey(ret[1].address)

\* A round trip over two inputs, one of them taproot with a key of odd y.
C5_Witness ==
  /\ pc = "scanned"
  /\ Len(targets) = 1
  /\ targets[1].address = seedToCode(scan.seed, 0, 0).address
  /\ scan.tweakHex = SenderTweak(utxos)
  /\ Len(scan.ret) = 1
  /\ scan.ret[1].vout = 0
  /\ Len(utxos) = 2
  /\ \E j \in 1..2 : /\ utxos[j].utxoType = "p2tr"
                      /\ pointFromScalar(fromWIF(utxos[j].wif))[1] = 3

HasEligible(us) == \E j \in 1..Len(us) : us[j].utxoType \in EligibleTypes

\* C6: for a UTXO list with an eligible UTXO, the tweak computeTweakForTx gives
\* for the transaction spending the list is outpoint_hash * A of the sender, so
\* that bscan * tweak is the sender's (outpoint_hash * a) * Bscan.
C6_TweakAgreement ==
  ( /\ Tweaked
    /\ HasEligible(utxos)
    /\ sumPrivkeys(utxos).error = ""
    /\ isPrivate(SenderAggregate(utxos))
    /\ isPrivate(SenderInputHash(utxos)) )
  => /\ tweak = SenderTweak(utxos)
     /\ \A seed \in Seeds :
          pointMultiply(tweak, seedToCode(seed, 0, 0).bscan)
            = getSharedSecret(privateMultiply(SenderInputHash(utxos), SenderAggregate(utxos)),
                              seedToCode(seed, 0, 0).Bscan)

\* What does hold: the two sides agree when every input is eligible.
C6_AllEligible ==
  ( /\ Tweaked
    /\ \A j \in 1..Len(utxos) : utxos[j].utxoType \in EligibleTypes
    /\ sumPrivkeys(utxos).error = ""
    /\ isPrivate(SenderAggregate(utxos))
    /\ isPrivate(SenderInputHash(utxos)) )
  => tweak = SenderTweak(utxos)

\* Byte-wise order of two arrays of one length.
RECURSIVE LexLeq(_, _)
LexLeq(a, b) ==
  IF a = <<>> THEN TRUE
  ELSE IF Head(a) # Head(b) THEN Head(a) < Head(b)
  ELSE LexLeq(Tail(a), Tail(b))

OutpointSet(us) == {UtxoOutpoint(us[j]) : j \in 1..Len(us)}

\* The least outpoint of the set of outpoints of a non-empty UTXO list.
LeastOutpoint(us) ==
  CHOOSE o \in OutpointSet(us) : \A other \in OutpointSet(us) : LexLeq(o, other)

PermuteSeq(s, p) == [j \in 1..Len(s) |-> s[p[j]]]

\* C7: for every order of the UTXO list, _outpointsHash on the list and
\* computeTweakForTx on the transaction spending it choose the same
\* smallest_outpoint: the byte-wise least of the set of outpoints.
C7_SmallestOutpoint ==
  Tweaked =>
    \A p \in Permutations(1..Len(utxos)) :
      /\ SenderSmallestOutpoint(PermuteSeq(utxos, p)) = LeastOutpoint(utxos)
      /\ ReceiverSmallestOutpoint(TransactionSpending(PermuteSeq(utxos, p), ret))
           = LeastOutpoint(utxos)

\* A payment whose first UTXO in list order does not have the least outpoint.
C7_Witness ==
  /\ Tweaked
  /\ HasPaymentCode(targets)
  /\ Len(utxos) >= 2
  /\ UtxoOutpoint(utxos[1]) # LeastOutpoint(utxos)
  /\ SenderSmallestOutpoint(utxos) = LeastOutpoint(utxos)
  /\ ReceiverSmallestOutpoint(tx) = LeastOutpoint(utxos)

BigEndian32(i) ==
  << (i \div 16777216) % 256, (i \div 65536) % 256, (i \div 256) % 256, i % 256 >>

LittleEndian32(i) ==
  << i % 256, (i \div 256) % 256, (i \div 65536) % 256, (i \div 16777216) % 256 >>

SameTxid(us) == \A h, j \in 1..Len(us) : us[h].txid = us[j].txid

\* C8 as stated: an outpoint is the txid in natural byte order and then the
\* big-endian output index, so among UTXOs of one txid the smallest outpoint
\* is that of the numerically smallest index.
C8_BigEndianIndex ==
  Tweaked =>
    /\ \A j \in 1..Len(utxos) :
         /\ SenderOutpoints(utxos)[j] = Reverse(utxos[j].txid) \o BigEndian32(utxos[j].vout)
         /\ ReceiverOutpoints(tx)[j] = SenderOutpoints(utxos)[j]
    /\ SameTxid(utxos) =>
         \E j \in 1..Len(utxos) :
           /\ \A h \in 1..Len(utxos) : utxos[j].vout <= utxos[h].vout
           /\ SenderSmallestOutpoint(utxos) = SenderOutpoints(utxos)[j]

\* C8: an outpoint is the txid in natural byte order and then the little-endian
\* output index, so among UTXOs of one txid the smallest outpoint is that of
\* the index whose little-endian bytes are byte-wise least, which is the
\* numerically smallest index when all indices are below 256.
C8_LittleEndianIndex ==
  Tweaked =>
    /\ \A j \in 1..Len(utxos) :
         /\ SenderOutpoints(utxos)[j] = Reverse(utxos[j].txid) \o LittleEndian32(utxos[j].vout)
         /\ ReceiverOutpoints(tx)[j] = SenderOutpoints(utxos)[j]
    /\ SameTxid(utxos) =>
         \E j \in 1..Len(utxos) :
           /\ \A h \in 1..Len(utxos) :
                /\ LexLeq(LittleEndian32(utxos[j].vout), LittleEndian32(utxos[h].vout))
                /\ (\A g \in 1..Len(utxos) : utxos[g].vout < 256)
                     => utxos[j].vout <= utxos[h].vout
           /\ SenderSmallestOutpoint(utxos) = SenderOutpoints(utxos)[j]
           /\ ReceiverSmallestOutpoint(tx) = SenderOutpoints(utxos)[j]

\* Two UTXOs of one txid with indices 1 and 256: the smallest outpoint is that
\* of index 256.
C8_Witness ==
  /\ Tweaked
  /\ HasPaymentCode(targets)
  /\ Len(utxos) = 2
  /\ SameTxid(utxos)
  /\ utxos[1].vout = 1 /\ utxos[2].vout = 256
  /\ SenderSmallestOutpoint(utxos) = UtxoOutpoint(utxos[2])
  /\ ReceiverSmallestOutpoint(tx) = UtxoOutpoint(utxos[2])

\* Every payment-code target decodes, with version 0.
AllCodesDecode(ts) ==
  \A i \in 1..Len(ts) :
    IsPaymentCodeTarget(ts[i]) => (ts[i].address.intact /\ ts[i].address.ver = 0)

\* C9 as stated: with a payment-code target and an empty UTXO list the call
\* fails with "No UTXOs provided".
C9_NoInputs ==
  (Called /\ HasPaymentCode(targets) /\ utxos = <<>>) => error = "No UTXOs provided"

\* C9: with a payment-code target, every payment-code target decoding with
\* version 0, and an empty UTXO list, the call fails with "No UTXOs provided"
\* and not with the message of a list without eligible UTXOs.
C9_NoInputsAfterDecoding ==
  (Called /\ HasPaymentCode(targets) /\ AllCodesDecode(targets) /\ utxos = <<>>)
    => (Failed /\ error = "No UTXOs provided")

\* A failed call with an empty UTXO list, a payment code and a pass-through
\* target.
C9_Witness ==
  /\ pc = "failed"
  /\ utxos = <<>>
  /\ HasPaymentCode(targets)
  /\ AllCodesDecode(targets)
  /\ \E i \in 1..Len(targets) : ~IsPaymentCodeTarget(targets[i])
  /\ error = "No UTXOs provided"

\* C10: with a payment-code target (all of them decoding with version 0) and
\* a non-empty UTXO list without an eligible UTXO, the call fails with
\* "No eligible UTXOs with private keys found".
C10_NoEligibleInputs ==
  ( /\ Called
    /\ HasPaymentCode(targets)
    /\ AllCodesDecode(targets)
    /\ utxos # <<>>
    /\ ~HasEligible(utxos) )
  => (Failed /\ error = "No eligible UTXOs with private keys found")

\* What does hold: the same when the WIF of every UTXO decodes.
C10_DecodableKeys ==
  ( /\ Called
    /\ HasPaymentCode(targets)
    /\ AllCodesDecode(targets)
    /\ utxos # <<>>
    /\ ~HasEligible(utxos)
    /\ \A j \in 1..Len(utxos) : fromWIF(utxos[j].wif) # NULL )
  => (Failed /\ error = "No eligible UTXOs with private keys found")

\* The payment-code target at index i decodes, to a version word other than 0.
DecodesToOtherVersion(ts, i) ==
  IsPaymentCodeTarget(ts[i]) /\ ts[i].address.intact /\ ts[i].address.ver # 0

UNSUPPORTED_VERSION == "Unexpected version of silent payment code"

\* C11 as stated: if any payment-code target decodes to a version word other
\* than 0, the call fails with "Unexpected version of silent payment code".
C11_AnyUnsupportedVersion ==
  (Called /\ \E i \in 1..Len(targets) : DecodesToOtherVersion(targets, i))
    => (Failed /\ error = UNSUPPORTED_VERSION /\ ret = <<>>)

\* C11: if a payment-code target decodes to a version word other than 0 and
\* every payment-code target before it decodes with version 0, the call fails
\* with "Unexpected version of silent payment code" and returns nothing.
C11_FirstUnsupportedVersion ==
  ( /\ Called
    /\ \E i \in 1..Len(targets) :
         /\ DecodesToOtherVersion(targets, i)
         /\ AllCodesDecode(SubSeq(targets, 1, i - 1)) )
  => (Failed /\ error = UNSUPPORTED_VERSION /\ ret = <<>>)

\* A call with usable UTXOs that fails on a version-1 code placed behind a
\* pass-through target and a valid payment code.
C11_Witness ==
  /\ pc = "failed"
  /\ error = UNSUPPORTED_VERSION
  /\ ret = <<>>
  /\ sumPrivkeys(utxos).error = ""
  /\ Len(targets) = 3
  /\ ~IsPaymentCodeTarget(targets[1])
  /\ IsPaymentCodeTarget(targets[2]) /\ AllCodesDecode(SubSeq(targets, 1, 2))
  /\ DecodesToOtherVersion(targets, 3)

\* A helper has returned or thrown.
HelperDone(op) == pc = "returned" /\ call.op = op

\* Decoding a string as a payment code succeeds: bech32m with a checksum that
\* verifies, the prefix sp, and a payload of a scan key and a spend key.
DecodesAsPaymentCode(code) ==
  /\ code.fmt = "bech32m"
  /\ code.intact
  /\ code.hrp = "sp"
  /\ Len(code.data) = 4

\* C12: isPaymentCodeValid never throws, and returns true iff the string
\* decodes as a payment code (checksum, prefix sp, 66 bytes of payload) with
\* version word 0.
C12_ValidIffDecodes ==
  HelperDone("isPaymentCodeValid") =>
    /\ result.error = ""
    /\ result.value = (DecodesAsPaymentCode(call.arg) /\ call.arg.ver = 0)

\* What does hold: it never throws, and returns true iff bech32m.decode accepts
\* the string within 118 characters and the first word is 0.
C12_ValidIffChecksumAndVersion ==
  HelperDone("isPaymentCodeValid") =>
    /\ result.error = ""
    /\ result.value = ( /\ call.arg.fmt = "bech32m"
                        /\ call.arg.intact
                        /\ Len(call.arg.data) <= 4
                        /\ call.arg.ver = 0 )

KeysSummed ==
  /\ Called
  /\ HasPaymentCode(targets)
  /\ AllCodesDecode(targets)
  /\ utxos # <<>>
  /\ \A j \in 1..Len(utxos) : fromWIF(utxos[j].wif) # NULL

\* The scalar of a UTXO's key, and the scalar it is to contribute: negated iff
\* the UTXO is p2tr and the point of the key has odd y.
ScalarOf(utxo) == fromWIF(utxo.wif)[1]

ContributionOf(utxo) ==
  IF utxo.utxoType = "p2tr" /\ ~HasEvenY(ScalarOf(utxo))
    THEN N - ScalarOf(utxo)
  ELSE ScalarOf(utxo)

RECURSIVE ExpectedKeys(_)
ExpectedKeys(us) ==
  IF us = <<>> THEN <<>>
  ELSE IF Head(us).utxoType \in EligibleTypes
    THEN << << ContributionOf(Head(us)) >> >> \o ExpectedKeys(Tail(us))
  ELSE ExpectedKeys(Tail(us))

RECURSIVE SumOf(_)
SumOf(keys) == IF keys = <<>> THEN 0 ELSE Head(keys)[1] + SumOf(Tail(keys))

\* C14: _sumPrivkeys negates a key iff its UTXO is p2tr and the compressed
\* public key of the scalar starts with 03, so every p2tr contribution has an
\* even-y point, and p2wpkh, p2sh-p2wpkh and p2pkh keys are added unchanged.
C14_TaprootNegation ==
  (JustCalled /\ KeysSummed) =>
    /\ CollectKeys(utxos).keys = ExpectedKeys(utxos)
    /\ \A j \in 1..Len(utxos) :
         utxos[j].utxoType = "p2tr" => pointFromScalar(KeyPushed(utxos[j])[1])[1] = 2
    /\ \A j \in 1..Len(utxos) :
         utxos[j].utxoType \in {"p2wpkh", "p2sh-p2wpkh", "p2pkh"}
           => KeyPushed(utxos[j]) = << fromWIF(utxos[j].wif) >>
    /\ Returned => SenderAggregate(utxos) = << SumOf(ExpectedKeys(utxos)) % N >>

\* A resolved payment from a p2tr UTXO with a key of odd y and another eligible
\* UTXO, not p2tr, with a key of odd y.
C14_Witness ==
  /\ Returned
  /\ KeysSummed
  /\ \E h, j \in 1..Len(utxos) :
       /\ utxos[h].utxoType = "p2tr" /\ ~HasEvenY(ScalarOf(utxos[h]))
       /\ utxos[j].utxoType \in {"p2wpkh", "p2sh-p2wpkh", "p2pkh"}
       /\ ~HasEvenY(ScalarOf(utxos[j]))
       /\ SenderAggregate(utxos) = << (N - ScalarOf(utxos[h]) + ScalarOf(utxos[j])) % N >>

\* The UTXO list with the wif of every non-eligible UTXO replaced by w.
WithNonEligibleWif(us, w) ==
  [j \in 1..Len(us) |->
     IF us[j].utxoType = "non-eligible" THEN [us[j] EXCEPT !.wif = w] ELSE us[j]]

\* The outcome of a call of createTransaction: what it threw, what it returned.
OutcomeOf(us, ts) ==
  LET r == createTransaction(us, ts)
  IN [error |-> r.error, value |-> IF r.error = "" THEN r.ret ELSE <<>>]

\* C15: the outcome of createTransaction does not depend on the wif of a
\* non-eligible UTXO, which need not be valid: with any other wif in its place
\* the call throws or returns the same.
C15_NonEligibleKeyUnread ==
  Called =>
    \A w \in Wifs :
      OutcomeOf(WithNonEligibleWif(utxos, w), targets) = [error |-> error, value |-> ret]

\* What does hold: the same among wifs that decode.
C15_AmongDecodableKeys ==
  (Called /\ \A j \in 1..Len(utxos) : fromWIF(utxos[j].wif) # NULL) =>
    \A w \in Wifs \ {<<>>} :
      OutcomeOf(WithNonEligibleWif(utxos, w), targets) = [error |-> error, value |-> ret]

\* The partial sums of the keys _sumPrivkeys adds up, in the order of the reduce.
RECURSIVE PartialSums(_, _)
PartialSums(acc, keys) ==
  IF keys = <<>> THEN {}
  ELSE {(acc + Head(keys)[1]) % N} \cup PartialSums((acc + Head(keys)[1]) % N, Tail(keys))

\* The eligible, parity-corrected keys sum to 0 mod n at some point.
SumDegenerates(us) ==
  /\ Len(ExpectedKeys(us)) >= 2
  /\ 0 \in PartialSums(Head(ExpectedKeys(us))[1], Tail(ExpectedKeys(us)))

\* The messages of the errors _sumPrivkeys throws.
SumPrivkeysErrors ==
  { "No UTXOs provided", "Invalid WIF", "No private key found for eligible UTXO",
    "No eligible UTXOs with private keys found" }

\* C16: when the eligible, parity-corrected keys sum to 0 mod n at a point of
\* the summation, the call fails at that step, in _sumPrivkeys, with an error;
\* the null is not turned into a byte value that later steps are given.
C16_FailsWhereItDegenerates ==
  (KeysSummed /\ SumDegenerates(utxos)) =>
    /\ error # ""
    /\ sumPrivkeys(utxos).error # ""
    /\ error \in SumPrivkeysErrors

\* What does hold: the call fails, in a later step that is given the empty array.
C16_FailsLater ==
  (KeysSummed /\ SumDegenerates(utxos)) =>
    /\ error # ""
    /\ sumPrivkeys(utxos) = [error |-> "", a |-> <<>>]
    /\ error \notin SumPrivkeysErrors

\* The scan that state scan records: the receiver's keys, the tweak t_0 of
\* counter 0 and the point P = t_0 * G + Bspend.
Scanned == pc \in {"scanned", "foreign"}
ScanCode == seedToCode(scan.seed, 0, 0)
ScanTweak ==
  taggedHash(TAG_SHARED_SECRET,
             concatUint8Arrays(<< getSharedSecret(ScanCode.bscan, scan.tweakHex), ser32(0) >>))
ScanPoint == pointAdd(pointMultiply(G, ScanTweak), ScanCode.Bspend, TRUE)
ScanMatches ==
  LET script == << 81, 32 >> \o Tail(ScanPoint)
  IN {j \in 1..Len(tx.outs) : tx.outs[j].script = script}

\* An output matches and the key bspend + t_0 is zero mod n.
ZeroDerivation ==
  /\ Scanned
  /\ isPrivate(ScanTweak)
  /\ (ScanCode.bspend[1] + ScanTweak[1]) % N = 0
  /\ ScanMatches # {}

\* C17: when an output matches and d = bspend + t_0 is zero (mod n), the scan
\* fails with an error that reaches the caller; the output is not dropped.
C17_ZeroKeyFailsScan == ZeroDerivation => scan.error # ""

\* What does hold: the scan returns, without the matching outputs.
C17_ZeroKeyDropsOutput ==
  ZeroDerivation => scan.error = "" /\ scan.ret = <<>>

\* The UTXO the scan is to return for output j of tx.
ScanUtxo(txid, d, j) == [txid |-> txid, vout |-> j - 1, wif |-> toWIF(d), utxoType |-> "p2tr"]

\* The scan returned, and P is a point with a key: bspend + t_0 is not zero.
ScanDerives ==
  /\ Scanned
  /\ scan.error = ""
  /\ (ScanCode.bspend[1] + ScanTweak[1]) % N # 0

C19_Ser32BigEndian ==
  (HelperDone("_ser32")) =>
    /\ Len(result.value) = 4
    /\ \A b \in 1..4 : result.value[b] \in 0..255
    /\ result.value[1] * 256 + result.value[2] = call.arg[1]
    /\ result.value[3] * 256 + result.value[4] = call.arg[2]
    /\ call.arg = << 0, 0 >> => result.value = << 0, 0, 0, 0 >>
    /\ call.arg = << 0, 1 >> => result.value = << 0, 0, 0, 1 >>
    /\ call.arg = << 0, 444 >> => result.value = << 0, 0, 1, 188 >>

\* _ser32 returned for a number of four different bytes above 2^31.
C19_Witness ==
  /\ HelperDone("_ser32")
  /\ call.arg = << 32768, 444 >>
  /\ result.value = << 128, 0, 1, 188 >>

C20_PrefixedKeyFails ==
  /\ HelperDone("pubkeyToAddress")
  /\ Len(call.arg) = 3
  /\ call.arg[1] = 81
  /\ call.arg[2] = 32
  /\ result.error = "has no matching Address"

\* The entries of the groups, as pairs of group and position in the group, and
\* the orders in which they can be processed.
GroupEntries(groups) ==
  UNION {{<< g, j >> : j \in 1..Len(groups[g].BmValues)} : g \in 1..Len(groups)}

OrdersOf(S) ==
  {order \in [1..Cardinality(S) -> S] :
     \A h, i \in 1..Cardinality(S) : h # i => order[h] # order[i]}

\* The loops of index.ts:84-104 with their iterations taken in the given order:
\* the shared secret is that of the entry's group, the counter that of the
\* entry's position in its group.
RECURSIVE ResolveInOrder(_, _, _, _)
ResolveInOrder(acc, order, a, outpoint_hash) ==
  IF order = <<>> \/ acc.error # "" THEN acc
  ELSE LET g == Head(order)[1]
           j == Head(order)[2]
           group == acc.groups[g]
           step1 == privateMultiply(outpoint_hash, a)
           ecdh_shared_secret == getSharedSecret(NewUint8Array(step1), group.Bscan)
       IN ResolveInOrder(ResolveEntry(acc, g, group, ecdh_shared_secret, j),
                         Tail(order), a, outpoint_hash)

\* The call has returned, once, with at least one group resolved.
GroupsResolved == pc = "resolved" /\ HasPaymentCode(targets)

\* C21: the result array of createTransaction is the same in whatever order
\* the entries of the groups are processed, groups in any order or interleaved.
C21_GroupOrderIndependent ==
  GroupsResolved =>
    LET grouped == GroupTargets(targets)
        a == sumPrivkeys(utxos).a
        outpoint_hash == outpointsHash(utxos, NewUint8Array(pointFromScalar(a)))
    IN \A order \in OrdersOf(GroupEntries(grouped.groups)) :
         LET r == ResolveInOrder(grouped, order, a, outpoint_hash)
         IN r.error = "" /\ r.ret = ret

\* A returned call with two groups, the first of two entries, whose targets
\* alternate between the groups.
C21_Witness ==
  /\ GroupsResolved
  /\ Len(GroupTargets(targets).groups) = 2
  /\ Len(GroupTargets(targets).groups[1].BmValues) = 2
  /\ ScanKeyOf(targets[1]) # ScanKeyOf(targets[2])
  /\ Cardinality(OrdersOf(GroupEntries(GroupTargets(targets).groups))) = 6

IsEligible(utxo) == utxo.utxoType \in EligibleTypes

\* A non-eligible UTXO has an outpoint below that of every eligible UTXO.
NonEligibleIsSmallest(us) ==
  \E j \in 1..Len(us) :
    /\ ~IsEligible(us[j])
    /\ UtxoOutpoint(us[j]) = LeastOutpoint(us)
    /\ \A h \in 1..Len(us) : IsEligible(us[h]) => UtxoOutpoint(us[h]) # LeastOutpoint(us)

\* C22: a non-eligible UTXO adds nothing to the sum of the keys, and its
\* outpoint takes part in the choice of smallest_outpoint: the hash is that of
\* the least outpoint of the whole list, a non-eligible one when it is least.
C22_NonEligibleOutpointCounts ==
  (JustCalled /\ KeysSummed /\ sumPrivkeys(utxos).error = "") =>
    LET a == sumPrivkeys(utxos).a
        A == NewUint8Array(pointFromScalar(a))
    IN /\ a = sumPrivkeys(SelectSeq(utxos, IsEligible)).a
       /\ outpointsHash(utxos, A)
            = taggedHash(TAG_INPUTS, concatUint8Arrays(<< LeastOutpoint(utxos), A >>))
       /\ NonEligibleIsSmallest(utxos) =>
            SenderSmallestOutpoint(utxos) # SenderSmallestOutpoint(SelectSeq(utxos, IsEligible))

\* A resolved payment from a non-eligible UTXO with the least outpoint and an
\* eligible UTXO.
C22_Witness ==
  /\ pc = "resolved"
  /\ KeysSummed
  /\ Len(utxos) = 2
  /\ NonEligibleIsSmallest(utxos)
  /\ \E j \in 1..2 : IsEligible(utxos[j])

\* The number a byte string holds (0 for the empty array).
NumberOf(bytes) == IF bytes = <<>> THEN 0 ELSE bytes[1]

\* The result a scalar operation is to give for the value v of d + t or d * t:
\* null when an operand is not a scalar strictly between 0 and n or v is 0
\* mod n, and v mod n otherwise.
ScalarResult(d, t, v) ==
  IF ~isPrivate(d) \/ ~isPrivate(t) \/ v % N = 0 THEN NULL ELSE << v % N >>

\* C23: privateAdd(d, t) and privateMultiply(d, t) return null for every
\* failure and a scalar strictly between 0 and n for every success, (d + t)
\* mod n and (d * t) mod n, null when that is 0 or an operand is not a usable
\* scalar; neither returns a zero scalar and neither raises an exception.
C23_ScalarOpsReturnNull ==
  /\ HelperDone("privateAdd") =>
        /\ result.error = ""
        /\ result.value = ScalarResult(call.arg[1], call.arg[2],
                                        NumberOf(call.arg[1]) + NumberOf(call.arg[2]))
  /\ HelperDone("privateMultiply") =>
        /\ result.error = ""
        /\ result.value = ScalarResult(call.arg[1], call.arg[2],
                                        NumberOf(call.arg[1]) * NumberOf(call.arg[2]))

\* What does hold: privateAdd is as stated; privateMultiply throws when d is
\* not a scalar strictly between 0 and n, and takes every 32-byte t, reduced
\* mod n.
C23_MultiplyThrowsOnKey ==
  /\ HelperDone("privateAdd") =>
        /\ result.error = ""
        /\ result.value = ScalarResult(call.arg[1], call.arg[2],
                                        NumberOf(call.arg[1]) + NumberOf(call.arg[2]))
  /\ HelperDone("privateMultiply") =>
        IF ~isPrivate(call.arg[1]) THEN result.error = "Expected Private"
        ELSE /\ result.error = ""
             /\ result.value = NULL \/ isPrivate(result.value)
             /\ result.value = NULL <=>
                   (Len(call.arg[2]) # 1 \/ (NumberOf(call.arg[1]) * NumberOf(call.arg[2])) % N = 0)
             /\ isPrivate(call.arg[2]) =>
                   result.value = ScalarResult(call.arg[1], call.arg[2],
                                               NumberOf(call.arg[1]) * NumberOf(call.arg[2]))

\* createTransaction has returned or thrown, and nothing was called since.
\* C24: the outcome of createTransaction, the resolved outputs or failure, is
\* the same for every permutation of the UTXO list.
C24_UtxoOrderIrrelevant ==
  JustCalled =>
    \A p \in Permutations(1..Len(utxos)) :
      LET o == OutcomeOf(PermuteSeq(utxos, p), targets)
      IN (o.error = "" <=> error = "") /\ o.value = ret

\* What does hold: the same, for the lists of which no order has a partial sum
\* of 0 mod n before the last key is added.
NoPartialCancellation(us) ==
  \A p \in Permutations(1..Len(us)) :
    LET keys == ExpectedKeys(PermuteSeq(us, p))
    IN \A m \in 2..(Len(keys) - 1) : SumOf(SubSeq(keys, 1, m)) % N # 0

C24_UnlessPartialSumCancels ==
  ( /\ JustCalled
    /\ \A j \in 1..Len(utxos) : fromWIF(utxos[j].wif) # NULL
    /\ NoPartialCancellation(utxos) ) =>
    \A p \in Permutations(1..Len(utxos)) :
      LET o == OutcomeOf(PermuteSeq(utxos, p), targets)
      IN (o.error = "" <=> error = "") /\ o.value = ret

\* The assignments to ret[i] the call made.
WritesTo(i) == {n \in 1..Len(writes) : writes[n].index = i}

\* The entries of the groups that hold target index i.
EntriesOf(groups, i) ==
  {e \in GroupEntries(groups) : groups[e[1]].BmValues[e[2]][3] = i}

\* C25: when createTransaction returns, every index of the result has been
\* written exactly once: a target is passed through or is one entry of one
\* group, no slot is left empty and none is written twice.
C25_EverySlotWrittenOnce ==
  (JustCalled /\ error = "") =>
    /\ Len(ret) = Len(targets)
    /\ Len(writes) = Len(targets)
    /\ \A i \in 1..Len(targets) :
         /\ Cardinality(WritesTo(i)) = 1
         /\ ret[i] # HOLE
         /\ \A n \in WritesTo(i) : writes[n].group = 0 <=> ~IsPaymentCodeTarget(targets[i])
         /\ Cardinality(EntriesOf(GroupTargets(targets).groups, i))
              = IF IsPaymentCodeTarget(targets[i]) THEN 1 ELSE 0

\* A returned call with a pass-through target between two entries of one
\* group, the same payment code twice.
C25_Witness ==
  /\ pc = "resolved"
  /\ Len(targets) = 3
  /\ IsPaymentCodeTarget(targets[1])
  /\ ~IsPaymentCodeTarget(targets[2])
  /\ targets[3].address = targets[1].address
  /\ Len(writes) = 3

\* C26: every string for which isPaymentCodeValid returns true, given as a
\* target address, is treated by createTransaction as a payment code, not
\* passed through, and decoded without error into a 33-byte scan key and a
\* 33-byte spend key.
C26_ValidatedCodeIsDecoded ==
  pc = "paid" =>
    LET grouped == GroupTargets(targets) IN
    /\ IsPaymentCodeTarget(targets[1])
    /\ grouped.error = ""
    /\ Len(grouped.groups) = 1
    /\ Len(grouped.groups[1].Bscan) = 2
    /\ Len(grouped.groups[1].BmValues[1][1]) = 2
    /\ error = "" => ret[1] # targets[1]

\* What does hold: the same for the validated strings that have the prefix sp
\* and 66 bytes of payload.
C26_ValidatedCompleteCodeIsDecoded ==
  (pc = "paid" /\ DecodesAsPaymentCode(targets[1].address)) =>
    LET grouped == GroupTargets(targets) IN
    /\ IsPaymentCodeTarget(targets[1])
    /\ grouped.error = ""
    /\ Len(grouped.groups) = 1
    /\ Len(grouped.groups[1].Bscan) = 2
    /\ Len(grouped.groups[1].BmValues[1][1]) = 2
    /\ error = "" /\ ret[1] # targets[1]

\* C27: every UTXO detectOurUtxos returns carries the zero-based position of a
\* matching output of tx as vout and the id of tx as txid, on every path of the
\* loop, the one that skips an output after a failed key addition included;
\* the list is in increasing vout order.
C27_VoutIsPosition ==
  (Scanned /\ scan.error = "") =>
    /\ \A i \in 1..Len(scan.ret) :
         /\ scan.ret[i].vout + 1 \in ScanMatches
         /\ scan.ret[i].txid = TxId(tx)
    /\ \A h, i \in 1..Len(scan.ret) : h < i => scan.ret[h].vout < scan.ret[i].vout
    /\ privateAdd(ScanCode.bspend, ScanTweak) = NULL => scan.ret = <<>>

\* A scan of a transaction whose second output matches and whose first does not.
C27_Witness ==
  /\ pc = "foreign"
  /\ scan.error = ""
  /\ Len(tx.outs) = 2
  /\ ScanMatches = {2}
  /\ Len(scan.ret) = 1
  /\ scan.ret[1].vout = 1

\* A scan that skipped a matching output: the key addition failed.
C27_SkipPath ==
  /\ Scanned
  /\ scan.error = ""
  /\ ScanMatches # {}
  /\ privateAdd(ScanCode.bspend, ScanTweak) = NULL

\* The sums of the first two, three, ... keys of a list, as discrete logarithms
\* (0: the point at infinity).
PartialPointSums(keys) ==
  {SumOf([j \in 1..m |-> << PointFromHex(keys[j]) >>]) % N : m \in 2..Len(keys)}

IsCompressedPoint(bytes) == Len(bytes) = 2 /\ bytes[1] \in {2, 3} /\ isPoint(bytes)

\* C28: the aggregate key sumPubKeys returns with compressed = true is null or
\* a 33-byte compressed point, for every list of extracted keys whatever their
\* encodings, a single key included; it is null for an empty list and when a
\* partial sum is the point at infinity.
C28_AggregateCompressedOrNull ==
  HelperDone("sumPubKeys") =>
    /\ result.value = NULL \/ IsCompressedPoint(result.value)
    /\ call.arg = <<>> => result.value = NULL
    /\ 0 \in PartialPointSums(call.arg) => result.value = NULL

\* What does hold: the result is the compressed sum for a list of two or more
\* keys without a partial sum at infinity and for a single key of 32 or 33
\* bytes, and null for an empty list.
C28_UnlessSingleUncompressed ==
  HelperDone("sumPubKeys") =>
    /\ call.arg = <<>> => result.value = NULL
    /\ (Len(call.arg) >= 2 /\ 0 \notin PartialPointSums(call.arg)) =>
         result.value =
           ToCompressed(SumOf([j \in 1..Len(call.arg) |-> << PointFromHex(call.arg[j]) >>]) % N)
    /\ (Len(call.arg) = 1 /\ Len(call.arg[1]) < 3) =>
         result.value = ToCompressed(PointFromHex(call.arg[1]))
    /\ (Len(call.arg) = 1 /\ Len(call.arg[1]) = 3) => result.value = call.arg[1]

\* The messages of the errors thrown while the targets are decoded.
DecodeErrors == {"Invalid checksum", UNSUPPORTED_VERSION}

\* C29: every payment-code target is decoded and version-checked before a
\* UTXO is read: when one is malformed or has a version other than 0 the call
\* fails with the decode or version error whatever the UTXO list, empty or
\* without eligible UTXO included, and an error about the UTXOs is raised only
\* when all payment-code targets decoded with version 0.
C29_TargetsBeforeUtxos ==
  Called =>
    /\ ~AllCodesDecode(targets) => (Failed /\ error \in DecodeErrors)
    /\ error \in SumPrivkeysErrors => (HasPaymentCode(targets) /\ AllCodesDecode(targets))

\* A call with a UTXO list of one non-eligible UTXO whose wif does not decode,
\* and a valid code before a code of version 1: the version error is thrown.
C29_Witness ==
  /\ pc = "failed"
  /\ Len(utxos) = 1
  /\ utxos[1].utxoType = "non-eligible"
  /\ fromWIF(utxos[1].wif) = NULL
  /\ \E i, j \in 1..Len(targets) :
       /\ i < j
       /\ IsPaymentCodeTarget(targets[i]) /\ targets[i].address.intact
       /\ targets[i].address.ver = 0
       /\ DecodesToOtherVersion(targets, j)
  /\ error = UNSUPPORTED_VERSION

\* The same with an empty UTXO list and a malformed code.
C29_EmptyListWitness ==
  /\ pc = "failed"
  /\ utxos = <<>>
  /\ \E i \in 1..Len(targets) : IsPaymentCodeTarget(targets[i]) /\ ~targets[i].address.intact
  /\ error = "Invalid checksum"

\* Target i is the payment code of another account of the scanned seed.
PaysOtherAccount(i) ==
  \E ap \in OtherAccounts : targets[i].address = seedToCode(scan.seed, ap[1], ap[2]).address

====
